---- MODULE Spec2Model ----
(***************************************************************************)
(* A model of the news-surge alert server's signal pipeline:               *)
(*   - strategy/exit.ts + strategy/entry.ts : updateExit, simulateEntry    *)
(*   - sim/simulator.ts                     : the paper-trading Ledger     *)
(*   - pipeline/priceConfirm.ts             : rolling stats + confirm gate *)
(*   - run_realtime.ts                      : news cycle and bar handler   *)
(*   - pipeline/score.ts, pipeline/classify.ts : scorer and classifier      *)
(*   - providers/marketaux.ts               : paginated, retried fetch     *)
(*                                                                         *)
(* Numbers.  The program computes in IEEE doubles; the model computes in   *)
(* exact arithmetic.  Prices and money are integers counted in mills       *)
(* (1 mill = $0.001), quantities and volumes are integers, timestamps are  *)
(* integer milliseconds, and every quotient the code forms (average cost,  *)
(* realized P&L, mean, variance, stop price) is an exact rational [n, d].  *)
(* Input prices are taken from domains on which the code's arithmetic is   *)
(* exact in these units.                                                   *)
(***************************************************************************)
EXTENDS Integers, Sequences, FiniteSets, TLC

VARIABLES
    simulator,          \* the Simulator object: fills, cash, positions, realizedPnl
    appended,           \* fill records appended since construction (bounds the run)
    volumeWindows,      \* priceConfirm.ts: symbol -> RollingWindow values
    vwapAccumulators,   \* priceConfirm.ts: symbol -> [priceVolume, volume]
    referencePrices,    \* priceConfirm.ts: symbol -> reference price
    pushed,             \* history: symbol -> every volume pushed since the window was created
    cfg,                \* the loaded configuration (thresholds)
    watchlist,          \* run_realtime.ts: Set<string>
    eventDb,            \* the dedupe/event store: the saved items
    barCount,           \* run_realtime.ts: bars handled
    simEntryCount,      \* run_realtime.ts: entries simulated
    bar,                \* the bar passed to the latest agg1m handler run
    entryAwait,         \* agg1m handler runs suspended on `await notifyDiscord`
    newsRuns,           \* newsCycle runs in flight
    unhandled,          \* a handler run's promise was rejected and nothing caught it
    unobserved,         \* history: symbols signalled since their last entry attempt began
    fnIn,               \* input of the pure function under test
    fnOut               \* its result

vars == << simulator, appended, volumeWindows, vwapAccumulators, referencePrices, pushed, cfg,
           watchlist, eventDb, barCount, simEntryCount, bar, entryAwait, newsRuns,
           unhandled, unobserved, fnIn, fnOut >>

ledgerVars == << simulator, appended >>
confirmVars == << volumeWindows, vwapAccumulators, referencePrices, pushed >>
realtimeVars == << watchlist, eventDb, barCount, simEntryCount, bar, entryAwait,
                   newsRuns, unhandled, unobserved >>
fnVars == << fnIn, fnOut >>

-----------------------------------------------------------------------------
(* Units *)

Dollar == 10 * 100          \* mills in a dollar
Cent == Dollar \div 100
Minute == 60 * 1000         \* milliseconds in a minute

(* Non-finite doubles, kept apart from every price of the model. *)
Infinity == 2 ^ 30
NaN == 0 - (2 ^ 30)
isFinite(x) == x # Infinity /\ x # NaN /\ x # 0 - Infinity

-----------------------------------------------------------------------------
(* Exact rationals [n |-> numerator, d |-> denominator > 0], in lowest terms *)

Abs(x) == IF x < 0 THEN 0 - x ELSE x
Max(a, b) == IF a >= b THEN a ELSE b
Min(a, b) == IF a <= b THEN a ELSE b

RECURSIVE Gcd(_, _)
Gcd(a, b) == IF b = 0 THEN a ELSE Gcd(b, a % b)

(* A zero denominator is the double's Infinity (n = 1 or -1) or NaN (n = 0). *)
Rat(n, d) ==
    LET sn == IF d < 0 THEN 0 - n ELSE n
        sd == Abs(d)
        g  == Gcd(Abs(sn), sd)
    IN  IF d = 0 THEN [n |-> IF n > 0 THEN 1 ELSE IF n < 0 THEN 0 - 1 ELSE 0, d |-> 0]
        ELSE [n |-> sn \div g, d |-> sd \div g]
RFinite(a) == a.d # 0

RInt(k) == [n |-> k, d |-> 1]
RAdd(a, b) == Rat(a.n * b.d + b.n * a.d, a.d * b.d)
RSub(a, b) == Rat(a.n * b.d - b.n * a.d, a.d * b.d)
RMul(a, b) == Rat(a.n * b.n, a.d * b.d)
RDiv(a, b) == Rat(a.n * b.d, a.d * b.n)
RLe(a, b) == a.n * b.d <= b.n * a.d
RLt(a, b) == a.n * b.d < b.n * a.d
RGe(a, b) == RLe(b, a)
RGt(a, b) == RLt(b, a)
RMax(a, b) == IF RGe(a, b) THEN a ELSE b
RFloor(a) == a.n \div a.d
RCeil(a) == 0 - ((0 - a.n) \div a.d)

-----------------------------------------------------------------------------
(* strategy/exit.ts: updateExit *)

Null == [null |-> TRUE]

trail == Rat(12, 100)
timeStopMin == 30

(* gain = lastPx/avg - 1 and drawdownFromHigh = lastPx/high - 1, as rationals *)
gainOf(pos, lastPx) == RSub(RDiv(RInt(lastPx), pos.avg), RInt(1))
drawdownOf(high, lastPx) == RSub(Rat(lastPx, high), RInt(1))

(* Fault variant of exitDecision: the profit target is tested before the
   trailing stop. *)
exitDecisionTargetFirst(pos, lastPx, now) ==
    LET gain == gainOf(pos, lastPx)
        drawdownFromHigh == drawdownOf(pos.high, lastPx)
        timePassedMin == Rat(now - pos.openTs, Minute)
    IN  IF RGe(gain, Rat(1, 2))
          THEN [reason |-> "target50", px |-> lastPx]
        ELSE IF RLe(drawdownFromHigh, RSub(RInt(0), trail))
          THEN [reason |-> "trail", px |-> lastPx]
        ELSE IF RGe(timePassedMin, RInt(timeStopMin)) /\ RLt(gain, Rat(3, 100))
          THEN [reason |-> "time", px |-> lastPx]
        ELSE Null

(* Fault variant of exitDecision: the time stop fires whatever the gain. *)
exitDecisionTimeOnly(pos, lastPx, now) ==
    LET gain == gainOf(pos, lastPx)
        drawdownFromHigh == drawdownOf(pos.high, lastPx)
        timePassedMin == Rat(now - pos.openTs, Minute)
    IN  IF RLe(drawdownFromHigh, RSub(RInt(0), trail))
          THEN [reason |-> "trail", px |-> lastPx]
        ELSE IF RGe(gain, Rat(1, 2))
          THEN [reason |-> "target50", px |-> lastPx]
        ELSE IF RGe(timePassedMin, RInt(timeStopMin))
          THEN [reason |-> "time", px |-> lastPx]
        ELSE Null

(* The decision of updateExit for a position whose high is already raised. *)
exitDecision(pos, lastPx, now) ==
    LET gain == gainOf(pos, lastPx)
        drawdownFromHigh == drawdownOf(pos.high, lastPx)
        timePassedMin == Rat(now - pos.openTs, Minute)
    IN  IF RLe(drawdownFromHigh, RSub(RInt(0), trail))
          THEN [reason |-> "trail", px |-> lastPx]
        ELSE IF RGe(gain, Rat(1, 2))
          THEN [reason |-> "target50", px |-> lastPx]
        ELSE IF RGe(timePassedMin, RInt(timeStopMin)) /\ RLt(gain, Rat(3, 100))
          THEN [reason |-> "time", px |-> lastPx]
        ELSE Null

(* updateExit mutates pos.high and returns the decision: both are returned here. *)
updateExit(pos, lastPx, now) ==
    LET p == [pos EXCEPT !.high = Max(pos.high, lastPx)]
    IN  [pos |-> p, decision |-> exitDecision(p, lastPx, now)]

-----------------------------------------------------------------------------
(* strategy/entry.ts: simulateEntry (position sizer) *)

MIN_NOTIONAL == 50 * Dollar
MAX_NOTIONAL == 5000 * Dollar
MIN_PRICE == 50 * Cent
LOT_SIZE == 1
TICK == Cent

(* Math.round(x) = floor(x + 1/2) *)
MathRound(x) == RFloor(RAdd(x, Rat(1, 2)))

(* SLIPPAGE = max(0.01, px * 0.0005); whole mills for px <= $20 and for
   multiples of $2 above, the domain the model draws prices from. *)
SLIPPAGE(px) == RFloor(RMax(RInt(Cent), Rat(px * 5, 10000)))

cleanPxOf(px) == Max(MIN_PRICE, MathRound(Rat(px, TICK)) * TICK)
stopPxOf(cleanPx) == RMax(Rat(cleanPx * 92, 100), RInt(cleanPx - 50 * Cent))
perShareRiskOf(cleanPx) == RMax(RSub(RInt(cleanPx), stopPxOf(cleanPx)), RInt(Cent))
rawQtyOf(cleanPx, riskPct, equity) ==
    RFloor(RDiv(RMul(RInt(equity), riskPct), perShareRiskOf(cleanPx)))
maxQtyByNotionalOf(cleanPx) == MAX_NOTIONAL \div cleanPx

(* Fault variant of sizedQty: the notional cap is taken as a floor (max for min). *)
sizedQtyCapAsFloor(cleanPx, riskPct, equity) ==
    LET maxQtyByNotional == maxQtyByNotionalOf(cleanPx)
        q0 == Max(0, Max(rawQtyOf(cleanPx, riskPct, equity), maxQtyByNotional))
        q1 == IF q0 > 0 /\ q0 < LOT_SIZE THEN LOT_SIZE ELSE q0
    IN  IF q1 > 0 /\ q1 * cleanPx < MIN_NOTIONAL
          THEN Min(RCeil(Rat(MIN_NOTIONAL, cleanPx)), maxQtyByNotional)
          ELSE q1

(* Fault variant of sizedQty: no bump up to the minimum notional. *)
sizedQtyNoBump(cleanPx, riskPct, equity) ==
    LET maxQtyByNotional == maxQtyByNotionalOf(cleanPx)
        q0 == Max(0, Min(rawQtyOf(cleanPx, riskPct, equity), maxQtyByNotional))
    IN  IF q0 > 0 /\ q0 < LOT_SIZE THEN LOT_SIZE ELSE q0

(* qty after the notional cap, the lot-size floor and the minimum-notional bump *)
sizedQty(cleanPx, riskPct, equity) ==
    LET maxQtyByNotional == maxQtyByNotionalOf(cleanPx)
        q0 == Max(0, Min(rawQtyOf(cleanPx, riskPct, equity), maxQtyByNotional))
        q1 == IF q0 > 0 /\ q0 < LOT_SIZE THEN LOT_SIZE ELSE q0
    IN  IF q1 > 0 /\ q1 * cleanPx < MIN_NOTIONAL
          THEN Min(RCeil(Rat(MIN_NOTIONAL, cleanPx)), maxQtyByNotional)
          ELSE q1

(* equity is in mills, riskPct a rational; stopPx is a rational number of mills *)
simulateEntry(symbol, px, now, riskPct, equity) ==
    LET cleanPx == cleanPxOf(px)
        qty == sizedQty(cleanPx, riskPct, equity)
        entryPx == cleanPx + SLIPPAGE(px)
    IN  IF qty <= 0
          THEN [side |-> "buy", symbol |-> symbol, qty |-> 0, ts |-> now, px |-> cleanPx]
          ELSE [side |-> "buy", symbol |-> symbol, qty |-> qty, ts |-> now, px |-> entryPx,
                stopPx |-> stopPxOf(cleanPx), notional |-> qty * entryPx]

DefaultRiskPct == Rat(1, 100)
DefaultEquity == 10000 * Dollar

-----------------------------------------------------------------------------
(* JavaScript objects used as maps: functions whose domain is the key set *)

EmptyMap == [k \in {} |-> Null]
MapPut(m, k, v) == [x \in (DOMAIN m) \cup {k} |-> IF x = k THEN v ELSE m[x]]
MapDel(m, k) == [x \in (DOMAIN m) \ {k} |-> m[x]]

-----------------------------------------------------------------------------
(* sim/simulator.ts: the Ledger *)

DefaultStartingCash == 100000 * Dollar

newSimulator(startingCash) ==
    [fills |-> << >>, cash |-> startingCash, positions |-> EmptyMap,
     realizedPnl |-> RInt(0)]

(* Fault variant of fillBuy: a merged buy leaves the average cost as it was. *)
fillBuyMergeKeepsAvg(S, o) ==
    LET cash == S.cash - o.px * o.qty
    IN  IF o.symbol \notin DOMAIN S.positions
          THEN [S EXCEPT !.cash = cash,
                         !.positions = MapPut(S.positions, o.symbol,
                             [symbol |-> o.symbol, qty |-> o.qty, avg |-> RInt(o.px),
                              openTs |-> o.ts, high |-> o.px])]
          ELSE LET p == S.positions[o.symbol]
                   newQty == p.qty + o.qty
               IN  [S EXCEPT !.cash = cash,
                             !.positions = MapPut(S.positions, o.symbol,
                                 [p EXCEPT !.qty = newQty,
                                           !.high = Max(p.high, o.px)])]

(* Fault variant of fillBuy: a merged buy sets the session high to the order
   price. *)
fillBuyHighIsLastPx(S, o) ==
    LET cash == S.cash - o.px * o.qty
    IN  IF o.symbol \notin DOMAIN S.positions
          THEN [S EXCEPT !.cash = cash,
                         !.positions = MapPut(S.positions, o.symbol,
                             [symbol |-> o.symbol, qty |-> o.qty, avg |-> RInt(o.px),
                              openTs |-> o.ts, high |-> o.px])]
          ELSE LET p == S.positions[o.symbol]
                   newQty == p.qty + o.qty
                   avg == RDiv(RAdd(RMul(p.avg, RInt(p.qty)), RInt(o.px * o.qty)),
                               RInt(newQty))
               IN  [S EXCEPT !.cash = cash,
                             !.positions = MapPut(S.positions, o.symbol,
                                 [p EXCEPT !.avg = avg, !.qty = newQty,
                                           !.high = o.px])]

(* fill, buy branch: debit cash, open the position or merge into it *)
fillBuy(S, o) ==
    LET cash == S.cash - o.px * o.qty
    IN  IF o.symbol \notin DOMAIN S.positions
          THEN [S EXCEPT !.cash = cash,
                         !.positions = MapPut(S.positions, o.symbol,
                             [symbol |-> o.symbol, qty |-> o.qty, avg |-> RInt(o.px),
                              openTs |-> o.ts, high |-> o.px])]
          ELSE LET p == S.positions[o.symbol]
                   newQty == p.qty + o.qty
                   avg == RDiv(RAdd(RMul(p.avg, RInt(p.qty)), RInt(o.px * o.qty)),
                               RInt(newQty))
               IN  [S EXCEPT !.cash = cash,
                             !.positions = MapPut(S.positions, o.symbol,
                                 [p EXCEPT !.avg = avg, !.qty = newQty,
                                           !.high = Max(p.high, o.px)])]

(* Fault variant of fillSell: a fully sold position is kept with qty 0. *)
fillSellKeepsZero(S, o) ==
    IF o.symbol \notin DOMAIN S.positions THEN S
    ELSE LET pos == S.positions[o.symbol]
             qtyToSell == Min(o.qty, pos.qty)
         IN  IF qtyToSell <= 0 THEN S
             ELSE [S EXCEPT
                     !.cash = S.cash + o.px * qtyToSell,
                     !.realizedPnl = RAdd(S.realizedPnl,
                         RMul(RSub(RInt(o.px), pos.avg), RInt(qtyToSell))),
                     !.positions = MapPut(S.positions, o.symbol,
                                    [pos EXCEPT !.qty = pos.qty - qtyToSell,
                                                !.high = Max(pos.high, o.px)])]

(* Fault variant of fillSell: realized P&L with the sign reversed. *)
fillSellPnlReversed(S, o) ==
    IF o.symbol \notin DOMAIN S.positions THEN S
    ELSE LET pos == S.positions[o.symbol]
             qtyToSell == Min(o.qty, pos.qty)
         IN  IF qtyToSell <= 0 THEN S
             ELSE [S EXCEPT
                     !.cash = S.cash + o.px * qtyToSell,
                     !.realizedPnl = RAdd(S.realizedPnl,
                         RMul(RSub(pos.avg, RInt(o.px)), RInt(qtyToSell))),
                     !.positions =
                         IF pos.qty - qtyToSell = 0
                           THEN MapDel(S.positions, o.symbol)
                           ELSE MapPut(S.positions, o.symbol,
                                    [pos EXCEPT !.qty = pos.qty - qtyToSell,
                                                !.high = Max(pos.high, o.px)])]

(* Fault variant of fillSell: the order quantity is sold, not capped at the
   held quantity. *)
fillSellUncapped(S, o) ==
    IF o.symbol \notin DOMAIN S.positions THEN S
    ELSE LET pos == S.positions[o.symbol]
             qtyToSell == o.qty
         IN  IF qtyToSell <= 0 THEN S
             ELSE [S EXCEPT
                     !.cash = S.cash + o.px * qtyToSell,
                     !.realizedPnl = RAdd(S.realizedPnl,
                         RMul(RSub(RInt(o.px), pos.avg), RInt(qtyToSell))),
                     !.positions =
                         IF pos.qty - qtyToSell = 0
                           THEN MapDel(S.positions, o.symbol)
                           ELSE MapPut(S.positions, o.symbol,
                                    [pos EXCEPT !.qty = pos.qty - qtyToSell,
                                                !.high = Max(pos.high, o.px)])]

(* fill, sell branch: reduce or close the position, realize P&L *)
fillSell(S, o) ==
    IF o.symbol \notin DOMAIN S.positions THEN S
    ELSE LET pos == S.positions[o.symbol]
             qtyToSell == Min(o.qty, pos.qty)
         IN  IF qtyToSell <= 0 THEN S
             ELSE [S EXCEPT
                     !.cash = S.cash + o.px * qtyToSell,
                     !.realizedPnl = RAdd(S.realizedPnl,
                         RMul(RSub(RInt(o.px), pos.avg), RInt(qtyToSell))),
                     !.positions =
                         IF pos.qty - qtyToSell = 0
                           THEN MapDel(S.positions, o.symbol)
                           ELSE MapPut(S.positions, o.symbol,
                                    [pos EXCEPT !.qty = pos.qty - qtyToSell,
                                                !.high = Max(pos.high, o.px)])]

(* Fault variant of fillRejects: a zero quantity is let through. *)
fillRejectsNegativeOnly(o) == o = Null \/ o.qty < 0 \/ ~isFinite(o.px)

(* the guard of fill: a null order, a non-positive quantity or a non-finite price *)
fillRejects(o) == o = Null \/ o.qty <= 0 \/ ~isFinite(o.px)

(* the record pushed on this.fills by fill *)
fillRecord(o) == [ts |-> o.ts, symbol |-> o.symbol, side |-> o.side, px |-> o.px,
                  qty |-> o.qty]

fill(S, o) ==
    IF fillRejects(o) THEN S
    ELSE LET S1 == [S EXCEPT !.fills = Append(S.fills, fillRecord(o))]
         IN  IF o.side = "buy" THEN fillBuy(S1, o) ELSE fillSell(S1, o)

(* Fault variant of tryExit: the exited position is left in the map. *)
tryExitKeepsPosition(S, symbol, lastPx, now) ==
    IF symbol \notin DOMAIN S.positions THEN S
    ELSE LET r == updateExit(S.positions[symbol], lastPx, now)
             p == r.pos
             decision == r.decision
         IN  IF decision = Null
               THEN [S EXCEPT !.positions = MapPut(S.positions, symbol, p)]
               ELSE [S EXCEPT
                       !.fills = Append(S.fills,
                           [ts |-> now, symbol |-> symbol, side |-> "sell",
                            px |-> decision.px, qty |-> p.qty,
                            reason |-> decision.reason]),
                       !.cash = S.cash + decision.px * p.qty,
                       !.realizedPnl = RAdd(S.realizedPnl,
                           RMul(RSub(RInt(decision.px), p.avg), RInt(p.qty))),
                       !.positions = MapPut(S.positions, symbol, p)]

tryExit(S, symbol, lastPx, now) ==
    IF symbol \notin DOMAIN S.positions THEN S
    ELSE LET r == updateExit(S.positions[symbol], lastPx, now)
             p == r.pos
             decision == r.decision
         IN  IF decision = Null
               THEN [S EXCEPT !.positions = MapPut(S.positions, symbol, p)]
               ELSE [S EXCEPT
                       !.fills = Append(S.fills,
                           [ts |-> now, symbol |-> symbol, side |-> "sell",
                            px |-> decision.px, qty |-> p.qty,
                            reason |-> decision.reason]),
                       !.cash = S.cash + decision.px * p.qty,
                       !.realizedPnl = RAdd(S.realizedPnl,
                           RMul(RSub(RInt(decision.px), p.avg), RInt(p.qty))),
                       !.positions = MapDel(S.positions, symbol)]

RECURSIVE unrealizedOf(_, _, _)
(* the reduce of equity over the positions in ks: a position marked with a finite
   price counts (px - avg) * qty + avg * qty, any other its cost avg * qty *)
unrealizedOf(P, mark, ks) ==
    IF ks = {} THEN RInt(0)
    ELSE LET s == CHOOSE x \in ks : TRUE
             p == P[s]
             basis == RMul(p.avg, RInt(p.qty))
             v == IF s \in DOMAIN mark /\ isFinite(mark[s])
                    THEN RAdd(RMul(RSub(RInt(mark[s]), p.avg), RInt(p.qty)), basis)
                    ELSE basis
         IN  RAdd(v, unrealizedOf(P, mark, ks \ {s}))

(* equity(mark): cash plus the marked (or cost) value of the open positions *)
equity(S, mark) ==
    RAdd(RInt(S.cash), unrealizedOf(S.positions, mark, DOMAIN S.positions))

(* Fault variant of reset: realized P&L is carried over. *)
resetKeepsPnl(S, args) ==
    [fills |-> << >>, positions |-> EmptyMap, realizedPnl |-> S.realizedPnl,
     cash |-> IF Len(args) > 0 THEN args[1] ELSE S.cash]

(* reset(startingCash?): args is << >> or << startingCash >> *)
reset(S, args) ==
    [fills |-> << >>, positions |-> EmptyMap, realizedPnl |-> RInt(0),
     cash |-> IF Len(args) > 0 THEN args[1] ELSE S.cash]

-----------------------------------------------------------------------------
(* pipeline/priceConfirm.ts: RollingWindow *)

WINDOW_SIZE == 3

RECURSIVE SeqSum(_)
SeqSum(q) == IF q = << >> THEN 0 ELSE Head(q) + SeqSum(Tail(q))

RECURSIVE SeqSumSqDev(_, _)
(* sum over q of (v - m)^2, m a rational *)
SeqSumSqDev(q, m) ==
    IF q = << >> THEN RInt(0)
    ELSE LET dv == RSub(RInt(Head(q)), m)
         IN  RAdd(RMul(dv, dv), SeqSumSqDev(Tail(q), m))

newRollingWindow(capacity) == [values |-> << >>, capacity |-> capacity]

(* Fault variant of push: evicts only once the window is two over capacity. *)
pushEvictsLate(w, x) ==
    LET vs == Append(w.values, x)
    IN  [w EXCEPT !.values = IF Len(vs) > w.capacity + 1 THEN Tail(vs) ELSE vs]

push(w, x) ==
    LET vs == Append(w.values, x)
    IN  [w EXCEPT !.values = IF Len(vs) > w.capacity THEN Tail(vs) ELSE vs]

(* last() ?? 0 *)
lastOr0(w) == IF Len(w.values) > 0 THEN w.values[Len(w.values)] ELSE 0

mean(w) ==
    IF Len(w.values) = 0 THEN RInt(0)
    ELSE Rat(SeqSum(w.values), Len(w.values))

(* std() squared: the sample variance (n - 1 denominator), 0 for n <= 1 *)
variance(w) ==
    LET n == Len(w.values)
    IN  IF n <= 1 THEN RInt(0)
        ELSE RDiv(SeqSumSqDev(w.values, mean(w)), RInt(n - 1))

-----------------------------------------------------------------------------
(* pipeline/priceConfirm.ts: per-symbol state and the confirmation gate *)


(* Fault variant of setRefPrices: every call overwrites the reference. *)
setRefPricesOverwrites(R, symbol, px) == MapPut(R, symbol, px)

(* x * |x|: order-preserving, so that z-scores (which hold a square root) are
   compared exactly.  A ConfirmSignal's volZ field holds volZ * |volZ|. *)
SignedSq(x) == RMul(x, [n |-> Abs(x.n), d |-> x.d])

onAggWindows(W, symbol, volume) ==
    LET win == IF symbol \in DOMAIN W THEN W[symbol] ELSE newRollingWindow(WINDOW_SIZE)
    IN  MapPut(W, symbol, push(win, volume))

onAggVwap(V, symbol, close, volume) ==
    LET acc == IF symbol \in DOMAIN V THEN V[symbol] ELSE [priceVolume |-> 0, volume |-> 0]
    IN  MapPut(V, symbol, [priceVolume |-> acc.priceVolume + close * volume,
                           volume |-> acc.volume + volume])

setRefPrices(R, symbol, px) ==
    IF symbol \notin DOMAIN R THEN MapPut(R, symbol, px) ELSE R

volZOf(win) ==
    LET meanVol == mean(win)
        var == variance(win)
        lastVol == lastOr0(win)
        dv == RSub(RInt(lastVol), meanVol)
    IN  IF RGt(var, RInt(0)) THEN RDiv(SignedSq(dv), var) ELSE RInt(0)

(* Fault variant of vwapPxOf: divides by the accumulated volume whenever an
   accumulator exists. *)
vwapPxOfUnguarded(V, symbol, priceNow) ==
    IF symbol \in DOMAIN V
      THEN Rat(V[symbol].priceVolume, V[symbol].volume)
      ELSE RInt(priceNow)

vwapPxOf(V, symbol, priceNow) ==
    IF symbol \in DOMAIN V /\ V[symbol].volume > 0
      THEN Rat(V[symbol].priceVolume, V[symbol].volume)
      ELSE RInt(priceNow)

getConfirm(W, V, R, c, symbol, priceNow) ==
    LET win == IF symbol \in DOMAIN W THEN W[symbol] ELSE newRollingWindow(WINDOW_SIZE)
        volZ == volZOf(win)
        vwapPx == vwapPxOf(V, symbol, priceNow)
        vwapDev == RSub(RDiv(RInt(priceNow), vwapPx), RInt(1))
        ref == IF symbol \in DOMAIN R THEN RInt(R[symbol]) ELSE vwapPx
        ret1m == RSub(RDiv(RInt(priceNow), ref), RInt(1))
        pass == \/ /\ RGe(volZ, SignedSq(c.VOL_Z_MIN))
                   /\ RGe(ret1m, c.RET_1M_MIN)
                \/ /\ RGe(vwapDev, c.VWAP_DEV_MIN)
                   /\ RGe(volZ, SignedSq(RSub(c.VOL_Z_MIN, Rat(1, 2))))
    IN  [symbol |-> symbol, price |-> priceNow, volZ |-> volZ, ret1m |-> ret1m,
         vwapDev |-> vwapDev, pass |-> pass]

-----------------------------------------------------------------------------
(* Bounds and input domains *)

MaxFills == 3           \* fill records appended in one run of the Ledger
MaxBars == 3            \* bars delivered in one run of the realtime loop

Symbols == {"AAA", "BBB"}

(* Orders handed to Ledger.fill *)
OrderQtys == {50, 100}
OrderPxs == {10 * Dollar, 12 * Dollar, 15 * Dollar}
OrderTimes == {0}
GoodOrders ==
    [side : {"buy", "sell"}, symbol : Symbols, qty : OrderQtys, ts : OrderTimes,
     px : OrderPxs]
(* Orders the guard of fill refuses: quantity <= 0, non-finite price, null *)
BadOrders ==
    [side : {"buy", "sell"}, symbol : Symbols, qty : {0 - 1, 0}, ts : OrderTimes,
     px : {10 * Dollar}]
    \cup [side : {"buy", "sell"}, symbol : Symbols, qty : {100}, ts : OrderTimes,
          px : {NaN, Infinity, 0 - Infinity}]
    \cup {Null}
Orders == GoodOrders \cup BadOrders

ExitPxs == OrderPxs
ExitTimes == {0, 30 * Minute}
StartingCashes == {DefaultStartingCash}
ResetArgs == {<< >>} \cup {<< c >> : c \in StartingCashes}

-----------------------------------------------------------------------------
(* States the variables of the other components rest in *)

Configs ==
    {[ALERT_THRESHOLD |-> Rat(55, 100), VOL_Z_MIN |-> Rat(1, 2),
      RET_1M_MIN |-> Rat(1, 100), VWAP_DEV_MIN |-> Rat(1, 100)]}

LedgerIdle == simulator = newSimulator(DefaultStartingCash) /\ appended = 0
ConfirmIdle ==
    /\ volumeWindows = EmptyMap
    /\ vwapAccumulators = EmptyMap
    /\ referencePrices = EmptyMap
    /\ pushed = EmptyMap
RealtimeIdle ==
    /\ watchlist = {}
    /\ eventDb = {}
    /\ barCount = 0
    /\ simEntryCount = 0
    /\ bar = Null
    /\ entryAwait = [s \in Symbols |-> 0]
    /\ newsRuns = << >>
    /\ unhandled = FALSE
    /\ unobserved = {}
FnIdle == fnIn = Null /\ fnOut = Null

-----------------------------------------------------------------------------
(* SpecLedger: a Ledger driven by arbitrary fill / tryExit / reset calls *)

InitLedger ==
    /\ \E c \in StartingCashes : simulator = newSimulator(c)
    /\ appended = 0
    /\ cfg \in Configs
    /\ ConfirmIdle /\ RealtimeIdle /\ FnIdle

LedgerFill ==
    \E o \in Orders :
        /\ appended < MaxFills
        /\ simulator' = fill(simulator, o)
        /\ appended' = appended + (Len(simulator'.fills) - Len(simulator.fills))
        /\ UNCHANGED << cfg, confirmVars, realtimeVars, fnVars >>

LedgerTryExit ==
    \E symbol \in Symbols, lastPx \in ExitPxs, now \in ExitTimes :
        /\ appended < MaxFills
        /\ simulator' = tryExit(simulator, symbol, lastPx, now)
        /\ appended' = appended + (Len(simulator'.fills) - Len(simulator.fills))
        /\ UNCHANGED << cfg, confirmVars, realtimeVars, fnVars >>

LedgerReset ==
    \E args \in ResetArgs :
        /\ simulator' = reset(simulator, args)
        /\ UNCHANGED << appended, cfg, confirmVars, realtimeVars, fnVars >>

NextLedger == LedgerFill \/ LedgerTryExit \/ LedgerReset

SpecLedger == InitLedger /\ [][NextLedger]_vars

-----------------------------------------------------------------------------
(* Ledger properties (SpecLedger) *)

buyOrder(s, q, p, t) == [side |-> "buy", symbol |-> s, qty |-> q, ts |-> t, px |-> p]
sellOrder(s, q, p, t) == [side |-> "sell", symbol |-> s, qty |-> q, ts |-> t, px |-> p]

(* C3: in every reachable Ledger state each entry of the open-positions map has
   qty > 0; a position sold down to 0 is deleted, never stored with qty 0. *)
C3_StoredPositionsHavePositiveQty ==
    \A s \in DOMAIN simulator.positions : simulator.positions[s].qty > 0

(* C3 witness: a position was closed by a sell (P&L realized on it) and is absent,
   while another symbol's position is still stored. *)
C3_Witness ==
    \E s \in Symbols, t \in Symbols :
        /\ s # t
        /\ s \notin DOMAIN simulator.positions
        /\ t \in DOMAIN simulator.positions
        /\ Len(simulator.fills) = 3
        /\ simulator.fills[3].side = "sell"
        /\ simulator.fills[3].symbol = s
        /\ simulator.realizedPnl # RInt(0)

(* C4: from any reachable Ledger state with no position in s, buying q at p1 and
   then selling q at p2 adds (p2 - p1) * q to realizedPnl, leaves no entry for s
   and leaves cash = cash before - p1*q + p2*q; on a new Ledger, 100 shares
   bought at $10 and sold at $12 give realizedPnl $200 and cash C + $200. *)
C4_RoundTrip ==
    /\ \A s \in Symbols, q \in OrderQtys, p1 \in OrderPxs, p2 \in OrderPxs,
          t \in OrderTimes :
          s \notin DOMAIN simulator.positions =>
            LET L2 == fill(fill(simulator, buyOrder(s, q, p1, t)), sellOrder(s, q, p2, t))
            IN  /\ L2.realizedPnl = RAdd(simulator.realizedPnl, RInt((p2 - p1) * q))
                /\ s \notin DOMAIN L2.positions
                /\ L2.cash = simulator.cash - p1 * q + p2 * q
    /\ \A c \in StartingCashes, s \in Symbols :
          LET L2 == fill(fill(newSimulator(c), buyOrder(s, 100, 10 * Dollar, 0)),
                         sellOrder(s, 100, 12 * Dollar, 0))
          IN  /\ L2.realizedPnl = RInt(200 * Dollar)
              /\ L2.cash = c + 200 * Dollar
              /\ s \notin DOMAIN L2.positions
    /\ (/\ Len(simulator.fills) = 2
        /\ appended = 2
        /\ simulator.fills[1].side = "buy"
        /\ simulator.fills[2] = [simulator.fills[1] EXCEPT !.side = "sell",
                                                          !.px = simulator.fills[2].px])
       => /\ simulator.realizedPnl =
                RInt((simulator.fills[2].px - simulator.fills[1].px)
                        * simulator.fills[1].qty)
          /\ simulator.positions = EmptyMap

(* C4 witness: the Ledger after buying 100 at $10 and selling 100 at $12. *)
C4_Witness ==
    \E s \in Symbols :
        /\ simulator.fills = << buyOrder(s, 100, 10 * Dollar, 0),
                                sellOrder(s, 100, 12 * Dollar, 0) >>
        /\ simulator.realizedPnl = RInt(200 * Dollar)
        /\ simulator.cash = DefaultStartingCash + 200 * Dollar
        /\ simulator.positions = EmptyMap

(* C5, as claimed: a call of fill with a sell order for a symbol that has no open
   position leaves cash, positions, realizedPnl and the fill list as they were. *)
C5_SellWithoutPositionIgnored ==
    [][\A o \in GoodOrders :
          (/\ o.side = "sell"
           /\ o.symbol \notin DOMAIN simulator.positions
           /\ simulator' = fill(simulator, o))
          => simulator' = simulator]_vars

-----------------------------------------------------------------------------
(* SpecExit: updateExit applied to one position, price and time *)

ExitAvgs == {8 * Dollar, 10 * Dollar}
ExitHighs == {10 * Dollar, 12 * Dollar, 16 * Dollar}
ExitLastPxs == {8 * Dollar, 10 * Dollar, 10 * Dollar + 30 * Cent,
                10 * Dollar + 50 * Cent, 12 * Dollar,
                15 * Dollar, 16 * Dollar, 20 * Dollar}
ExitNows == {0, 29 * Minute, 30 * Minute, 90 * Minute}

(* positions as the Ledger holds them: qty > 0 and high >= avg *)
ExitInputs ==
    {in \in {[pos |-> [symbol |-> "AAA", qty |-> 100, avg |-> RInt(a), openTs |-> 0,
                       high |-> h],
              lastPx |-> l, now |-> t] :
                a \in ExitAvgs, h \in ExitHighs, l \in ExitLastPxs, t \in ExitNows} :
        RGe(RInt(in.pos.high), in.pos.avg)}

InitExit ==
    /\ fnIn \in ExitInputs
    /\ fnOut = Null
    /\ cfg \in Configs
    /\ LedgerIdle /\ ConfirmIdle /\ RealtimeIdle

ExitEval ==
    /\ fnOut = Null
    /\ fnOut' = updateExit(fnIn.pos, fnIn.lastPx, fnIn.now)
    /\ UNCHANGED << fnIn, cfg, ledgerVars, confirmVars, realtimeVars >>

NextExit == ExitEval

SpecExit == InitExit /\ [][NextExit]_vars

(* the three rule conditions, stated on the inputs in whole numbers *)
trailCond(in) == 100 * in.lastPx <= 88 * Max(in.pos.high, in.lastPx)
targetCond(in) == 2 * in.lastPx * in.pos.avg.d >= 3 * in.pos.avg.n
timeCond(in) ==
    /\ in.now - in.pos.openTs >= 30 * Minute
    /\ 100 * in.lastPx * in.pos.avg.d < 103 * in.pos.avg.n

(* C7: the rules are tried in the order trailing stop, profit target, time stop
   and the first match is returned; whenever lastPx is at least 12% below the
   (raised) session high the reason is 'trail', whatever else holds; for avg $10,
   high $12, lastPx $10.50 the result is the trailing stop. *)
C7_TrailFirst ==
    fnOut # Null =>
        /\ fnOut.pos.high = Max(fnIn.pos.high, fnIn.lastPx)
        /\ trailCond(fnIn) => (fnOut.decision # Null /\ fnOut.decision.reason = "trail")
        /\ (~trailCond(fnIn) /\ targetCond(fnIn))
              => (fnOut.decision # Null /\ fnOut.decision.reason = "target50")
        /\ (~trailCond(fnIn) /\ ~targetCond(fnIn) /\ timeCond(fnIn))
              => (fnOut.decision # Null /\ fnOut.decision.reason = "time")
        /\ (fnIn.pos.avg = RInt(10 * Dollar) /\ fnIn.pos.high = 12 * Dollar
              /\ fnIn.lastPx = 10 * Dollar + 50 * Cent)
              => fnOut.decision = [reason |-> "trail", px |-> fnIn.lastPx]

(* C7 witness: the trailing stop was returned for a price that also meets the
   profit target. *)
C7_Witness ==
    /\ fnOut # Null
    /\ fnOut.decision # Null
    /\ fnOut.decision.reason = "trail"
    /\ targetCond(fnIn)

-----------------------------------------------------------------------------
(* SpecSizer: simulateEntry applied to one price, risk fraction and equity *)

SizerPxs == {1, 499, 500, 1994, 1995, 2 * Dollar, 2004, 2005, 20 * Dollar,
             100 * Dollar, 5000 * Dollar, 5002 * Dollar, 6000 * Dollar}
SizerRiskPcts == {RInt(0), Rat(1, 100), Rat(2, 100)}
SizerEquities == {0, 100 * Dollar, 10000 * Dollar}
SizerInputs == [px : SizerPxs, riskPct : SizerRiskPcts, equity : SizerEquities]

InitSizer ==
    /\ fnIn \in SizerInputs
    /\ fnOut = Null
    /\ cfg \in Configs
    /\ LedgerIdle /\ ConfirmIdle /\ RealtimeIdle

SizerEval ==
    /\ fnOut = Null
    /\ fnOut' = simulateEntry("AAA", fnIn.px, 0, fnIn.riskPct, fnIn.equity)
    /\ UNCHANGED << fnIn, cfg, ledgerVars, confirmVars, realtimeVars >>

NextSizer == SizerEval

SpecSizer == InitSizer /\ [][NextSizer]_vars

C10_Input == [px |-> 2 * Dollar, riskPct |-> Rat(1, 100), equity |-> 10000 * Dollar]

(* C10, as claimed: for price $2.00, equity $10,000 and riskPct 1% the sizer
   returns qty = 2500. *)
C10_QtyIs2500 ==
    (fnIn = C10_Input /\ fnOut # Null) => fnOut.qty = 2500

(* C10, amended: for price $2.00, equity $10,000 and riskPct 1% the stop is
   $1.84, the risk per share $0.16, the raw quantity 625, the maximum-notional
   cap 2500 shares, which does not bind, and the order has qty = 625 (notional
   $1,250, above the minimum notional). *)
C10_QtyIs625 ==
    (fnIn = C10_Input /\ fnOut # Null) =>
        /\ cleanPxOf(fnIn.px) = 2 * Dollar
        /\ fnOut.stopPx = RInt(184 * Cent)
        /\ perShareRiskOf(cleanPxOf(fnIn.px)) = RInt(16 * Cent)
        /\ rawQtyOf(cleanPxOf(fnIn.px), fnIn.riskPct, fnIn.equity) = 625
        /\ maxQtyByNotionalOf(cleanPxOf(fnIn.px)) = 2500
        /\ fnOut.qty = 625
        /\ fnOut.qty * cleanPxOf(fnIn.px) = 1250 * Dollar
        /\ fnOut.qty * cleanPxOf(fnIn.px) >= MIN_NOTIONAL

(* C10 witness: the sizer has returned for the claim's input. *)
C10_Witness == fnIn = C10_Input /\ fnOut # Null /\ fnOut.qty > 0

-----------------------------------------------------------------------------
(* SpecConfirm: the priceConfirm module driven by arbitrary calls *)

MaxPushes == WINDOW_SIZE + 2     \* onAgg calls between two resets, all symbols together
AggCloses == {10 * Dollar}
AggVolumes == {0, 2}
RefPxs == {8 * Dollar, 10 * Dollar}
ConfirmPxs == {10 * Dollar, 11 * Dollar}

RECURSIVE SumLens(_, _)
SumLens(m, ks) ==
    IF ks = {} THEN 0
    ELSE LET k == CHOOSE x \in ks : TRUE IN Len(m[k]) + SumLens(m, ks \ {k})
TotalPushed == SumLens(pushed, DOMAIN pushed)

InitConfirm ==
    /\ ConfirmIdle
    /\ cfg \in Configs
    /\ LedgerIdle /\ RealtimeIdle /\ FnIdle

OnAgg ==
    \E symbol \in Symbols, close \in AggCloses, volume \in AggVolumes :
        /\ TotalPushed < MaxPushes
        /\ volumeWindows' = onAggWindows(volumeWindows, symbol, volume)
        /\ vwapAccumulators' = onAggVwap(vwapAccumulators, symbol, close, volume)
        /\ pushed' = MapPut(pushed, symbol,
               Append(IF symbol \in DOMAIN pushed THEN pushed[symbol] ELSE << >>, volume))
        /\ fnIn' = Null /\ fnOut' = Null
        /\ UNCHANGED << referencePrices, cfg, ledgerVars, realtimeVars >>

SetRef ==
    \E symbol \in Symbols, px \in RefPxs :
        /\ referencePrices' = setRefPrices(referencePrices, symbol, px)
        /\ fnIn' = Null /\ fnOut' = Null
        /\ UNCHANGED << volumeWindows, vwapAccumulators, pushed, cfg, ledgerVars,
                        realtimeVars >>

GetConfirm ==
    \E symbol \in Symbols, priceNow \in ConfirmPxs :
        /\ fnIn' = [symbol |-> symbol, priceNow |-> priceNow]
        /\ fnOut' = getConfirm(volumeWindows, vwapAccumulators, referencePrices, cfg,
                               symbol, priceNow)
        /\ UNCHANGED << confirmVars, cfg, ledgerVars, realtimeVars >>

ResetSymbolState ==
    \E symbol \in Symbols :
        /\ volumeWindows' = MapDel(volumeWindows, symbol)
        /\ vwapAccumulators' = MapDel(vwapAccumulators, symbol)
        /\ referencePrices' = MapDel(referencePrices, symbol)
        /\ pushed' = MapDel(pushed, symbol)
        /\ fnIn' = Null /\ fnOut' = Null
        /\ UNCHANGED << cfg, ledgerVars, realtimeVars >>

NextConfirm == OnAgg \/ SetRef \/ GetConfirm \/ ResetSymbolState

SpecConfirm == InitConfirm /\ [][NextConfirm]_vars

(* the last k elements of q *)
LastK(q, k) == SubSeq(q, Len(q) - k + 1, Len(q))

(* C8: for every symbol the window holds at most capacity values, namely the most
   recent min(pushes, capacity) pushed values in order (so after capacity + 1
   pushes the first pushed value is gone), and mean() is their average. *)
C8_WindowIsLastCapacityPushes ==
    /\ DOMAIN volumeWindows = DOMAIN pushed
    /\ \A s \in DOMAIN volumeWindows :
          LET w == volumeWindows[s]
              h == pushed[s]
              k == Min(Len(h), w.capacity)
          IN  /\ w.capacity = WINDOW_SIZE
              /\ Len(w.values) <= w.capacity
              /\ w.values = LastK(h, k)
              /\ k > 0 => RMul(mean(w), RInt(k)) = RInt(SeqSum(LastK(h, k)))

(* C8 witness: capacity + 1 values were pushed for a symbol; the window is full
   and its oldest value is the second pushed value, which differs from the
   first. *)
C8_Witness ==
    \E s \in DOMAIN volumeWindows :
        /\ Len(pushed[s]) = WINDOW_SIZE + 1
        /\ Len(volumeWindows[s].values) = WINDOW_SIZE
        /\ pushed[s][1] # pushed[s][2]
        /\ volumeWindows[s].values[1] = pushed[s][2]

AllEqual(q) == \A i \in 1..Len(q) : q[i] = q[1]
WindowValues(s) == IF s \in DOMAIN volumeWindows THEN volumeWindows[s].values ELSE << >>

(* C9: confirm(symbol, price), price > 0, yields finite numbers on cold state: with
   accumulated volume 0 (symbol never seen, just reset, or only zero-volume bars)
   vwapDev = 0; with an empty, one-sample or zero-deviation window volZ = 0; with
   no state at all for the symbol ret1m = 0 as well. *)
C9_ColdConfirm ==
    fnOut # Null =>
        LET s == fnIn.symbol IN
        /\ RFinite(fnOut.vwapDev) /\ RFinite(fnOut.volZ) /\ RFinite(fnOut.ret1m)
        /\ (s \notin DOMAIN vwapAccumulators \/ vwapAccumulators[s].volume = 0)
              => fnOut.vwapDev = RInt(0)
        /\ (Len(WindowValues(s)) <= 1 \/ AllEqual(WindowValues(s)))
              => fnOut.volZ = RInt(0)
        /\ (s \notin DOMAIN volumeWindows /\ s \notin DOMAIN vwapAccumulators
              /\ s \notin DOMAIN referencePrices)
              => (fnOut.ret1m = RInt(0) /\ fnOut.vwapDev = RInt(0)
                    /\ fnOut.volZ = RInt(0))

(* C9 witness: confirm was called for a symbol that has seen two or more bars,
   all of zero volume. *)
C9_Witness ==
    /\ fnOut # Null
    /\ fnIn.symbol \in DOMAIN vwapAccumulators
    /\ vwapAccumulators[fnIn.symbol].volume = 0
    /\ Len(WindowValues(fnIn.symbol)) >= 2
    /\ fnOut.vwapDev = RInt(0)

-----------------------------------------------------------------------------
(* run_realtime.ts: the news cycle and the agg1m bar handler.

   Both are async functions on one event loop: the code between two awaits runs
   as one step, and a run suspended on an await resumes in a later step, after
   any number of steps of other runs.  Logging, the CSV flush and the liveness
   timer change no state and are left out; Date.now() stamps (lastNewsRun,
   lastBarAt) are not kept. *)

MaxNewsRuns == 2        \* newsCycle runs in flight together

(* A fetched item after classify and score: its dedupe hash (title, url, source),
   its symbols, its score and whether publishedAt is older than the lookback. *)
Item(h, syms, sc, st) == [hash |-> h, symbols |-> syms, score |-> sc, stale |-> st]
ItemA1 == Item("h1", << "AAA" >>, Rat(80, 100), FALSE)
ItemA2 == Item("h2", << "AAA", "BBB" >>, Rat(60, 100), FALSE)
ItemB1 == Item("h1", << "BBB" >>, Rat(90, 100), FALSE)
ItemNoSymbol == Item("h3", << >>, Rat(90, 100), FALSE)
ItemLowScore == Item("h4", << "BBB" >>, Rat(30, 100), FALSE)
ItemStale == Item("h5", << "BBB" >>, Rat(90, 100), TRUE)
NewsItems == {ItemA1, ItemA2, ItemB1, ItemNoSymbol, ItemLowScore, ItemStale}
NewsBatches ==
    { << >>,
      << ItemA1 >>,
      << ItemNoSymbol, ItemA1, ItemA2 >>,
      << ItemLowScore, ItemStale, ItemB1 >> }

(* the event store: seen(hash) and save(item) *)
seen(db, hash) == \E e \in db : e.hash = hash
save(db, item) == db \cup {[hash |-> item.hash, symbol |-> item.symbols[1]]}

RECURSIVE SelectSeq2(_, _)
(* items.filter(keep), keep given as the set of items kept *)
SelectSeq2(q, keep) ==
    IF q = << >> THEN << >>
    ELSE IF Head(q) \in keep THEN << Head(q) >> \o SelectSeq2(Tail(q), keep)
    ELSE SelectSeq2(Tail(q), keep)

(* newsCycle from the fetch to the loop: drop stale items, keep those whose score
   reaches the alert threshold *)
passedOf(rawItems, c) ==
    SelectSeq2(rawItems,
               {i \in NewsItems : ~i.stale /\ RGe(i.score, c.ALERT_THRESHOLD)})

RECURSIVE newsLoopNoDedupe(_, _, _)
(* Fault variant of newsLoop: items already seen are not skipped. *)
newsLoopNoDedupe(items, db, wl) ==
    IF items = << >> THEN [db |-> db, wl |-> wl, rest |-> << >>, awaiting |-> FALSE]
    ELSE LET item == Head(items) IN
         IF Len(item.symbols) = 0 THEN newsLoopNoDedupe(Tail(items), db, wl)
         ELSE [db |-> save(db, item), wl |-> wl \cup {item.symbols[1]},
               rest |-> Tail(items), awaiting |-> TRUE]

RECURSIVE newsLoop(_, _, _)
(* the for-loop of newsCycle up to its next await (or its end): items without a
   symbol and items already seen are skipped; the first other item is saved and
   its symbol added to the watchlist, and the run waits on notifyDiscord *)
newsLoop(items, db, wl) ==
    IF items = << >> THEN [db |-> db, wl |-> wl, rest |-> << >>, awaiting |-> FALSE]
    ELSE LET item == Head(items) IN
         IF Len(item.symbols) = 0 THEN newsLoop(Tail(items), db, wl)
         ELSE IF seen(db, item.hash) THEN newsLoop(Tail(items), db, wl)
         ELSE [db |-> save(db, item), wl |-> wl \cup {item.symbols[1]},
               rest |-> Tail(items), awaiting |-> TRUE]

RemoveAt(q, i) == SubSeq(q, 1, i - 1) \o SubSeq(q, i + 1, Len(q))

(* Bars delivered by the feed *)
BarOpens == {2500 * Dollar}
BarCloses == {2000 * Dollar, 2600 * Dollar, 6000 * Dollar}
BarVolumes == {1}
BarTimes == {0}
Bars == [symbol : Symbols, startTimestamp : BarTimes, open : BarOpens,
         close : BarCloses, volume : BarVolumes]

Init ==
    /\ simulator = newSimulator(DefaultStartingCash)
    /\ appended = 0
    /\ cfg \in Configs
    /\ ConfirmIdle /\ RealtimeIdle /\ FnIdle

(* setInterval(newsCycle) / start(): a run begins and waits on fetchAllProviders *)
NewsCycleStart ==
    /\ Len(newsRuns) < MaxNewsRuns
    /\ newsRuns' = Append(newsRuns, [pc |-> "fetch", rest |-> << >>])
    /\ UNCHANGED << watchlist, eventDb, barCount, simEntryCount, bar, entryAwait,
                    unhandled, unobserved, cfg, ledgerVars, confirmVars, fnVars >>

(* the step of run i that follows a resolved await *)
newsContinue(i, items) ==
    LET r == newsLoop(items, eventDb, watchlist) IN
    /\ eventDb' = r.db
    /\ watchlist' = r.wl
    /\ newsRuns' = IF r.awaiting
                     THEN [newsRuns EXCEPT ![i] = [pc |-> "notify", rest |-> r.rest]]
                     ELSE RemoveAt(newsRuns, i)
    /\ unobserved' = unobserved \cup {e.symbol : e \in r.db \ eventDb}
    /\ UNCHANGED << barCount, simEntryCount, bar, entryAwait, unhandled, cfg,
                    ledgerVars, confirmVars, fnVars >>

NewsFetched ==
    \E i \in 1..Len(newsRuns), rawItems \in NewsBatches :
        /\ newsRuns[i].pc = "fetch"
        /\ newsContinue(i, passedOf(rawItems, cfg))

NewsNotified ==
    \E i \in 1..Len(newsRuns) :
        /\ newsRuns[i].pc = "notify"
        /\ newsContinue(i, newsRuns[i].rest)

(* fetchAllProviders or notifyDiscord rejects: the catch logs, the run ends *)
NewsAwaitRejected ==
    \E i \in 1..Len(newsRuns) :
        /\ newsRuns' = RemoveAt(newsRuns, i)
        /\ UNCHANGED << watchlist, eventDb, barCount, simEntryCount, bar, entryAwait,
                        unhandled, unobserved, cfg, ledgerVars, confirmVars, fnVars >>

(* what the handler does with a bar once the rolling stats are updated *)
barOutcome(W, V, R, c, wl, b) ==
    IF b.symbol \notin wl THEN "unwatched"
    ELSE IF ~getConfirm(W, V, R, c, b.symbol, b.close).pass THEN "nopass"
    ELSE IF simulateEntry(b.symbol, b.close, b.startTimestamp,
                          DefaultRiskPct, DefaultEquity).qty <= 0 THEN "nosize"
    ELSE "entry"

(* feed.on("agg1m"): the handler up to its await (or its return) *)
OnAgg1m ==
    \E b \in Bars :
        /\ barCount < MaxBars
        /\ bar' = b
        /\ barCount' = barCount + 1
        /\ volumeWindows' = onAggWindows(volumeWindows, b.symbol, b.volume)
        /\ vwapAccumulators' = onAggVwap(vwapAccumulators, b.symbol, b.close, b.volume)
        /\ pushed' = MapPut(pushed, b.symbol,
               Append(IF b.symbol \in DOMAIN pushed THEN pushed[b.symbol] ELSE << >>,
                      b.volume))
        /\ referencePrices' = setRefPrices(referencePrices, b.symbol, b.open)
        /\ LET outcome == barOutcome(volumeWindows', vwapAccumulators', referencePrices',
                                     cfg, watchlist, b)
               order == simulateEntry(b.symbol, b.close, b.startTimestamp,
                                      DefaultRiskPct, DefaultEquity)
           IN  /\ watchlist' = IF outcome = "nosize" THEN watchlist \ {b.symbol}
                               ELSE watchlist
               /\ simulator' = IF outcome = "entry" THEN fill(simulator, order)
                               ELSE simulator
               /\ appended' = Len(simulator'.fills)
               /\ simEntryCount' = IF outcome = "entry" THEN simEntryCount + 1
                                   ELSE simEntryCount
               /\ entryAwait' = IF outcome = "entry"
                                  THEN [entryAwait EXCEPT ![b.symbol] = @ + 1]
                                  ELSE entryAwait
               /\ unobserved' = IF outcome \in {"nosize", "entry"}
                                  THEN unobserved \ {b.symbol}
                                  ELSE unobserved
        /\ UNCHANGED << eventDb, newsRuns, unhandled, cfg, fnVars >>

(* notifyDiscord resolves: the handler resumes and removes the symbol *)
EntryNotified ==
    \E s \in Symbols :
        /\ entryAwait[s] > 0
        /\ entryAwait' = [entryAwait EXCEPT ![s] = @ - 1]
        /\ watchlist' = watchlist \ {s}
        /\ UNCHANGED << eventDb, barCount, simEntryCount, bar, newsRuns, unhandled,
                        unobserved, cfg, ledgerVars, confirmVars, fnVars >>

(* notifyDiscord rejects: the handler's promise rejects, nothing catches it and
   the statement after the await never runs *)
EntryNotifyRejected ==
    \E s \in Symbols :
        /\ entryAwait[s] > 0
        /\ entryAwait' = [entryAwait EXCEPT ![s] = @ - 1]
        /\ unhandled' = TRUE
        /\ UNCHANGED << watchlist, eventDb, barCount, simEntryCount, bar, newsRuns,
                        unobserved, cfg, ledgerVars, confirmVars, fnVars >>

Next ==
    \/ NewsCycleStart
    \/ NewsFetched
    \/ NewsNotified
    \/ NewsAwaitRejected
    \/ OnAgg1m
    \/ EntryNotified
    \/ EntryNotifyRejected

Spec == Init /\ [][Next]_vars

-----------------------------------------------------------------------------
(* Realtime properties (Spec) *)

RECURSIVE CountBuys(_, _)
(* buy fills recorded for symbol s *)
CountBuys(fs, s) ==
    IF fs = << >> THEN 0
    ELSE (IF Head(fs).side = "buy" /\ Head(fs).symbol = s THEN 1 ELSE 0)
            + CountBuys(Tail(fs), s)

(* watchlist signals raised for s: the qualifying items saved with s as primary
   symbol (each save is followed at once by watchlist.add) *)
Signals(s) == Cardinality({e \in eventDb : e.symbol = s})

(* C1, as claimed: in every interleaving the Ledger holds at most one buy fill
   per watchlist signal of a symbol. *)
C1_OneFillPerSignal ==
    \A s \in Symbols : CountBuys(simulator.fills, s) <= Signals(s)

(* a step of the bar handler for a bar of symbol s *)
BarStepFor(s) == barCount' = barCount + 1 /\ bar'.symbol = s

(* C2, as claimed: a bar for a symbol with an open position has the exit policy
   evaluated against it, and when a rule triggers the Ledger records the closing
   sell fill and the position is removed. *)
C2_ExitOnLaterBars ==
    [][\A s \in Symbols :
          (/\ BarStepFor(s)
           /\ s \in DOMAIN simulator.positions
           /\ updateExit(simulator.positions[s], bar'.close,
                         bar'.startTimestamp).decision # Null)
          => /\ s \notin DOMAIN simulator'.positions
             /\ Len(simulator'.fills) = Len(simulator.fills) + 1
             /\ simulator'.fills[Len(simulator'.fills)].side = "sell"]_vars

(* C6: an order with qty <= 0 or a non-finite price (or a null order) is a no-op
   for Ledger.fill in every reachable state, and a bar-handler step whose sized
   order has qty <= 0 records no fill, leaves the Ledger and the entry counter as
   they were, suspends no handler run and only removes the symbol from the
   watchlist. *)
C6_ZeroQtyNoFill ==
    /\ [](\A o \in BadOrders : fill(simulator, o) = simulator)
    /\ [][\A s \in Symbols :
            (/\ BarStepFor(s)
             /\ barOutcome(volumeWindows', vwapAccumulators', referencePrices', cfg,
                           watchlist, bar') = "nosize")
            => /\ simulator' = simulator
               /\ simEntryCount' = simEntryCount
               /\ entryAwait' = entryAwait
               /\ watchlist' = watchlist \ {s}]_vars

(* C6 witness: a symbol was signalled and is off the watchlist with no buy fill
   and no suspended entry, so its removal came from a zero-quantity order (a
   $6000 bar); the bar handled last is a later bar of that symbol. *)
C6_Witness ==
    \E s \in Symbols :
        /\ Signals(s) > 0
        /\ s \notin watchlist
        /\ CountBuys(simulator.fills, s) = 0
        /\ bar # Null
        /\ bar.symbol = s
        /\ bar.close # 6000 * Dollar
        /\ barCount = 3

-----------------------------------------------------------------------------
(* pipeline/score.ts: the scorer *)

(* Scores are counted in hundredths (0.72 is 72): every constant of the scorer
   is a whole number of hundredths.  A text is the set of the cues (regular
   expressions of the scorer, by the name of their constant) that match it. *)

BASELINE ==
    ("PIVOTAL_TRIAL_SUCCESS" :> 72)
    @@ ("FDA_MARKETING_AUTH" :> 70)
    @@ ("FDA_ADCOM_POSITIVE" :> 66)
    @@ ("REGULATORY_DESIGNATION" :> 54)
    @@ ("TIER1_PARTNERSHIP" :> 60)
    @@ ("MAJOR_GOV_CONTRACT" :> 60)
    @@ ("GOVERNMENT_EQUITY_OR_GRANT" :> 58)
    @@ ("ACQUISITION_BUYOUT" :> 64)
    @@ ("IPO_DEBUT_POP" :> 55)
    @@ ("COURT_WIN_INJUNCTION" :> 56)
    @@ ("MEME_OR_INFLUENCER" :> 50)
    @@ ("RESTRUCTURING_OR_FINANCING" :> 50)
    @@ ("POLICY_OR_POLITICS_TAILWIND" :> 44)
    @@ ("EARNINGS_BEAT_OR_GUIDE_UP" :> 52)
    @@ ("INDEX_INCLUSION" :> 50)
    @@ ("UPLISTING_TO_NASDAQ" :> 46)
    @@ ("OTHER" :> 20)

(* URLs an item can carry, with what `new URL(url).hostname` gives for each:
   "" is a missing url, Null is the TypeError of an unparsable one. *)
UrlHost ==
    [none |-> "", wire |-> "www.prnewswire.com", ir |-> "ir.acme.com",
     web |-> "www.example.com", bad |-> "throws"]
WIRE_HOSTS ==
    {"www.prnewswire.com", "www.globenewswire.com", "www.businesswire.com",
     "www.accesswire.com", "www.newsfilecorp.com"}
IrHosts == {"ir.acme.com"}         \* hosts matching /^(ir|investors)\./

(* score.ts isWirePR: a wire or IR host, else a wire token in the text; a url
   that does not parse is swallowed by the empty catch. *)
isWirePR(url, cues) ==
    \/ /\ url # "none"
       /\ UrlHost[url] # "throws"
       /\ UrlHost[url] \in WIRE_HOSTS \cup IrHosts
    \/ "WIRE_TOKENS" \in cues

capIf(c, s, cap) == IF c THEN Min(s, cap) ELSE s
addIf(c, s, d) == IF c THEN s + d ELSE s

(* Fault variant of baselineOf: the incoming score is kept when it is higher. *)
baselineKeepsScore(it) ==
    Max(it.score,
        IF it.klass \in DOMAIN BASELINE THEN BASELINE[it.klass] ELSE BASELINE["OTHER"])

(* BASELINE[it.klass] ?? BASELINE["OTHER"] *)
baselineOf(it) ==
    IF it.klass \in DOMAIN BASELINE THEN BASELINE[it.klass] ELSE BASELINE["OTHER"]

(* Fault variant of clamp01: the upper bound is dropped. *)
clamp01NoUpper(s) == Max(0, s)

(* Math.max(0, Math.min(1, s)) *)
clamp01(s) == Max(0, Min(100, s))

(* steps 2 and 3 of score: the early caps *)
earlyCaps(it, s) ==
    LET has(c) == c \in it.cues
        a == capIf(has("RX_PROXY_ADVISOR") \/ has("RX_VOTE_ADMIN_ONLY"), s, 20)
        b == capIf(has("RX_LAWFIRM"), a, 12)
        c1 == capIf(has("RX_AWARDS"), b, 18)
        d == capIf(has("RX_SECURITY_UPDATE"), c1, 16)
        e == capIf(has("RX_INVESTOR_CONFS"), d, 16)
        f == capIf(has("RX_ANALYST") \/ has("RX_MEDIA_INTERVIEW"), e, 16)
        g == capIf(has("RX_SHELF_ATM"), f, 18)
        h == capIf(~has("RX_SPECIAL_DIVIDEND") /\ has("RX_BUYBACK_DIV"), g, 20)
        i == capIf(has("RX_STRAT_ALTS"), h, 30)
        isPlainDilutive ==
            /\ has("PLAIN_DILUTIVE")
            /\ ~(\/ has("RX_FINANCING_PREMIUM")
                 \/ has("RX_FINANCING_STRATEGIC")
                 \/ has("RX_FINANCING_GOING"))
    IN  capIf(isPlainDilutive, i, 18)

(* steps 4 to 9 of score: the class-specific adjustments *)
classNuance(it, s) ==
    LET has(c) == c \in it.cues
        (* 4) bio nuance *)
        p1 == IF has("RX_PIVOTAL") THEN s + 5
              ELSE IF has("RX_MID_STAGE_WIN") THEN s + 5 ELSE s
        p2 == addIf(~has("RX_TOPLINE_STRONG"), p1, 0 - 5)
        p3 == addIf(has("RX_PRECLIN_NHP"), p2, 6)
        p4 == addIf(has("RX_CELL_MODEL"), p3,
                    IF has("RX_HOT_DISEASE") THEN 6 ELSE 4)
        p5 == addIf(has("RX_JOURNAL") /\ has("RX_TOPLINE_STRONG"), p4, 4)
        a == IF it.klass = "PIVOTAL_TRIAL_SUCCESS" THEN p5 ELSE s
        (* 5) approvals split *)
        f1 == capIf(has("RX_CE_MARK"), a, 46)
        f2 == capIf(has("RX_510K"), f1, 46)
        f3 == capIf(has("RX_SUPPLEMENTAL"), f2, 58)
        b == IF it.klass = "FDA_MARKETING_AUTH" THEN f3 ELSE a
        (* 6) process / journal / conference guards *)
        hasStrongOutcome ==
            has("RX_TOPLINE_STRONG") \/ has("RX_PIVOTAL") \/ has("RX_MID_STAGE_WIN")
        g1 == capIf(has("RX_REG_PROCESS"), b, 42)
        g2 == capIf(has("RX_JOURNAL"), g1, 42)
        g3 == capIf(has("RX_CONFERENCE"), g2, 38)
        c1 == IF ~hasStrongOutcome THEN g3 ELSE b
        (* 7) M&A specifics *)
        definitive ==
            \/ has("RX_MNA_DEFINITIVE")
            \/ has("RX_MNA_WILL_ACQUIRE") /\ has("RX_MNA_PERPRICE")
        m1 == addIf(definitive, c1, 6)
        m2 == addIf(has("RX_MNA_TENDER"), m1, 4)
        m3 == addIf(has("RX_MNA_REVISED"), m2, 6)
        m4 == addIf(has("RX_MNA_CASHSTOCK"), m3, 2)
        m5 == addIf(has("RX_MNA_PERPRICE"), m4, 2)
        m6 == addIf(has("RX_MNA_LOI_ANY"), m5, 0 - 6)
        m7 == capIf(has("RX_MNA_ADMIN"), m6, 40)
        m8 == capIf(has("RX_ASSET_SALE") \/ has("RX_PROPERTY_ACQ"), m7, 40)
        d == IF it.klass = "ACQUISITION_BUYOUT" THEN m8 ELSE c1
        (* 8) routine follow-on government contracts *)
        e == capIf(it.klass = "MAJOR_GOV_CONTRACT" /\ has("GOV_FOLLOW_ON"), d, 48)
        (* 9) index inclusion *)
        i1 == addIf(has("RX_INDEX_MAJOR"), e, 4)
        i2 == capIf(has("RX_INDEX_MINOR"), i1, 40)
    IN  IF it.klass = "INDEX_INCLUSION" THEN i2 ELSE e

wireSensitive ==
    {"PIVOTAL_TRIAL_SUCCESS", "FDA_MARKETING_AUTH", "FDA_ADCOM_POSITIVE",
     "TIER1_PARTNERSHIP", "MAJOR_GOV_CONTRACT", "GOVERNMENT_EQUITY_OR_GRANT",
     "ACQUISITION_BUYOUT", "EARNINGS_BEAT_OR_GUIDE_UP", "INDEX_INCLUSION",
     "UPLISTING_TO_NASDAQ"}

(* step 10 of score: wire presence modulation *)
wireModulation(it, s) ==
    LET has(c) == c \in it.cues
        isWire == isWirePR(it.url, it.cues)
        tier1Powered == has("TIER1_RX") /\ has("RX_TIER1_VERBS")
        definitiveMnaOffWire ==
            /\ it.klass = "ACQUISITION_BUYOUT"
            /\ ~isWire
            /\ \/ has("RX_MNA_DEFINITIVE")
               \/ has("RX_MNA_WILL_ACQUIRE") /\ has("RX_MNA_PERPRICE")
    IN  IF it.klass \in wireSensitive /\ ~(definitiveMnaOffWire \/ tier1Powered)
        THEN IF isWire THEN s + 4 ELSE Min(s, 48)
        ELSE s

(* steps 11 to 16 of score: the late adjustments and the generic boosters *)
lateBoosts(it, s) ==
    LET has(c) == c \in it.cues
        isCryptoBuy == has("RX_CRYPTO_TREASURY_BUY")
        isCryptoDiscuss == has("RX_CRYPTO_TREASURY_DISCUSS")
        k1 == addIf(isCryptoBuy, s, 14)
        k2 == addIf(isCryptoDiscuss, k1, 10)
        k3 == addIf(has("LARGE_DOLLAR_AMOUNT"), k2, 4)
        a == IF \/ it.klass = "RESTRUCTURING_OR_FINANCING"
                \/ isCryptoBuy
                \/ isCryptoDiscuss
             THEN k3 ELSE s
        hasBigPct == has("BIG_PCT")
        swingProfit == has("SWING_PROFIT")
        b == IF has("RX_FIN_RESULTS") /\ ~has("RX_EARNINGS_BEAT")
             THEN IF hasBigPct \/ swingProfit
                  THEN a + (IF swingProfit THEN 10 ELSE 8)
                  ELSE Min(a, 32)
             ELSE a
        c1 == addIf(has("RX_ANTI_DILUTION_POS"), b, 12)
        d == addIf(has("RX_LISTING_COMPLIANCE"), c1, 12)
        e == addIf(has("RX_SPECIAL_DIVIDEND"), d, 14)
        isSmallCap == it.marketCap > 0 /\ it.marketCap < 1000
        f == addIf(isSmallCap, e, 14)
        g == addIf(has("SUPERLATIVE_WORDS"), f, 4)
        h == addIf(has("LARGE_DOLLAR_AMOUNT"), g, 6)
        i == addIf(has("BIG_MOVE_WORDS"), h, 6)
    IN  addIf(Len(it.symbols) = 1, i, 3)

(* the body of items.map in score: { ...it, score: s } *)
scoreOne(it) ==
    IF "RX_MISINFO" \in it.cues
    THEN [it EXCEPT !.score = 0]
    ELSE [it EXCEPT !.score =
            clamp01(lateBoosts(it,
                wireModulation(it, classNuance(it, earlyCaps(it, baselineOf(it))))))]

score(items) == [i \in DOMAIN items |-> scoreOne(items[i])]

(* pipeline/score.ts, the earlier revision kept in priceConfirm.ts *)
BASELINE_EARLIER ==
    ("PIVOTAL_TRIAL_SUCCESS" :> 72)
    @@ ("FDA_MARKETING_AUTH" :> 70)
    @@ ("FDA_ADCOM_POSITIVE" :> 66)
    @@ ("REGULATORY_DESIGNATION" :> 54)
    @@ ("TIER1_PARTNERSHIP" :> 60)
    @@ ("MAJOR_GOV_CONTRACT" :> 60)
    @@ ("ACQUISITION_BUYOUT" :> 62)
    @@ ("IPO_DEBUT_POP" :> 55)
    @@ ("COURT_WIN_INJUNCTION" :> 56)
    @@ ("MEME_OR_INFLUENCER" :> 50)
    @@ ("RESTRUCTURING_OR_FINANCING" :> 48)
    @@ ("POLICY_OR_POLITICS_TAILWIND" :> 44)
    @@ ("OTHER" :> 20)

scoreOneEarlier(it) ==
    LET has(c) == c \in it.cues
        s == IF it.klass \in DOMAIN BASELINE_EARLIER
             THEN BASELINE_EARLIER[it.klass] ELSE BASELINE_EARLIER["OTHER"]
        isSmallCap == it.marketCap > 0 /\ it.marketCap < 1000
        a == addIf(isSmallCap, s, 14)
        b == addIf(has("SUPERLATIVE_WORDS"), a, 4)
        c1 == addIf(has("LARGE_DOLLAR_AMOUNT"), b, 6)
        d == addIf(has("BIG_MOVE_WORDS"), c1, 6)
        e == addIf(Len(it.symbols) = 1, d, 3)
    IN  [it EXCEPT !.score = Min(100, e)]

scoreEarlier(items) == [i \in DOMAIN items |-> scoreOneEarlier(items[i])]

-----------------------------------------------------------------------------
(* SpecScore: score and its earlier revision applied to one batch, the output
   of score being scored again *)

MaxPasses == 2          \* times score is applied in a row to the same batch

ScoreClasses == DOMAIN BASELINE \cup {"SOME_NEW_CLASS"}

(* the low-signal cohorts of step 2 and 3, each with the cue(s) that mark it *)
CohortCues ==
    {"RX_PROXY_ADVISOR", "RX_VOTE_ADMIN_ONLY", "RX_LAWFIRM", "RX_AWARDS",
     "RX_SECURITY_UPDATE", "RX_INVESTOR_CONFS", "RX_ANALYST", "RX_MEDIA_INTERVIEW",
     "RX_SHELF_ATM", "RX_BUYBACK_DIV", "RX_STRAT_ALTS", "PLAIN_DILUTIVE"}
(* cues that add to the score in steps 11 to 16 *)
BoostCues ==
    {"RX_CRYPTO_TREASURY_BUY", "RX_CRYPTO_TREASURY_DISCUSS", "LARGE_DOLLAR_AMOUNT",
     "RX_ANTI_DILUTION_POS", "RX_LISTING_COMPLIANCE", "RX_SPECIAL_DIVIDEND",
     "SUPERLATIVE_WORDS", "BIG_MOVE_WORDS"}
ClassCues ==
    {"RX_PIVOTAL", "RX_MID_STAGE_WIN", "RX_TOPLINE_STRONG", "RX_PRECLIN_NHP",
     "RX_CELL_MODEL", "RX_HOT_DISEASE", "RX_JOURNAL", "RX_CE_MARK", "RX_510K",
     "RX_SUPPLEMENTAL", "RX_REG_PROCESS", "RX_CONFERENCE", "RX_MNA_DEFINITIVE",
     "RX_MNA_WILL_ACQUIRE", "RX_MNA_PERPRICE", "RX_MNA_TENDER", "RX_MNA_REVISED",
     "RX_MNA_CASHSTOCK", "RX_MNA_LOI_ANY", "RX_MNA_ADMIN", "RX_ASSET_SALE",
     "RX_PROPERTY_ACQ", "GOV_FOLLOW_ON", "RX_INDEX_MAJOR", "RX_INDEX_MINOR",
     "TIER1_RX", "RX_TIER1_VERBS", "RX_FIN_RESULTS", "RX_EARNINGS_BEAT", "BIG_PCT",
     "SWING_PROFIT", "RX_FINANCING_PREMIUM", "RX_FINANCING_STRATEGIC",
     "RX_FINANCING_GOING", "WIRE_TOKENS", "RX_MISINFO"}
ScoreCues == CohortCues \cup BoostCues \cup ClassCues

(* "Pivotal Phase 3 trial met its primary endpoint (statistically significant),
   published in NEJM; record $500 million ..." *)
RichTrialText ==
    {"RX_PIVOTAL", "RX_TOPLINE_STRONG", "RX_JOURNAL", "SUPERLATIVE_WORDS",
     "LARGE_DOLLAR_AMOUNT"}
ScoreTexts ==
    {{}} \cup {{c} : c \in ScoreCues}
         \cup {{c, b} : c \in CohortCues, b \in BoostCues}
         \cup {{"RX_MNA_WILL_ACQUIRE", "RX_MNA_PERPRICE"},
               {"TIER1_RX", "RX_TIER1_VERBS"},
               {"RX_FIN_RESULTS", "BIG_PCT"},
               {"RX_FIN_RESULTS", "SWING_PROFIT"},
               {"RX_CELL_MODEL", "RX_HOT_DISEASE"},
               {"RX_MNA_LOI_ANY", "RX_LAWFIRM"},
               RichTrialText}

ScoreUrls == DOMAIN UrlHost
ScoreMarketCaps == {0, 500, 2000}       \* $ millions; 0 is a missing marketCap
ScoreSymbols == {<< >>, <<"AAA">>, <<"AAA", "BBB">>}
ScoreIncoming == {0, 50}                \* the score field on entry (rawScore)

ScoreItems ==
    [klass : ScoreClasses, cues : ScoreTexts, url : ScoreUrls,
     marketCap : ScoreMarketCaps, symbols : ScoreSymbols, score : ScoreIncoming]
ScoreBatches == {<< >>} \cup {<< it >> : it \in ScoreItems}

InitScore ==
    /\ fnIn \in {[items |-> b] : b \in ScoreBatches}
    /\ fnOut = Null
    /\ cfg \in Configs
    /\ LedgerIdle /\ ConfirmIdle /\ RealtimeIdle

ScoreEval ==
    /\ fnOut = Null
    /\ fnOut' = [by |-> "score", pass |-> 1, items |-> score(fnIn.items)]
    /\ UNCHANGED << fnIn, cfg, ledgerVars, confirmVars, realtimeVars >>

ScoreAgain ==
    /\ fnOut # Null
    /\ fnOut.by = "score"
    /\ fnOut.pass < MaxPasses
    /\ fnOut' = [fnOut EXCEPT !.pass = @ + 1, !.items = score(fnOut.items)]
    /\ UNCHANGED << fnIn, cfg, ledgerVars, confirmVars, realtimeVars >>

ScoreEarlierEval ==
    /\ fnOut = Null
    /\ fnOut' = [by |-> "scoreEarlier", pass |-> 1, items |-> scoreEarlier(fnIn.items)]
    /\ UNCHANGED << fnIn, cfg, ledgerVars, confirmVars, realtimeVars >>

NextScore == ScoreEval \/ ScoreAgain \/ ScoreEarlierEval

SpecScore == InitScore /\ [][NextScore]_vars

(* C11: every item returned by score, and by its earlier revision, carries a
   score s with 0 <= s <= 1 (0 <= s <= 100 in hundredths), for every class
   (listed in BASELINE or not), text, url, market cap and symbol list. *)
C11_ScoreInUnitInterval ==
    fnOut # Null =>
        \A i \in DOMAIN fnOut.items :
            fnOut.items[i].score >= 0 /\ fnOut.items[i].score <= 100

(* the sum score clamps: baseline, caps, adjustments and boosters, unclamped *)
rawSum(it) ==
    lateBoosts(it, wireModulation(it, classNuance(it, earlyCaps(it, baselineOf(it)))))

(* C11 witness: score returned an item whose unclamped sum is above 1, with the
   score 1. *)
C11_Witness ==
    /\ fnOut # Null
    /\ fnOut.by = "score"
    /\ \E i \in DOMAIN fnOut.items :
          /\ "RX_MISINFO" \notin fnIn.items[i].cues
          /\ rawSum(fnIn.items[i]) > 100
          /\ fnOut.items[i].score = 100

(* C12: the items score returns are those it returns for the same classified
   items whatever their incoming score field, and scoring its own output
   returns that output: the score never depends on the incoming score. *)
C12_ScoreIdempotent ==
    (fnOut # Null /\ fnOut.by = "score") =>
        /\ DOMAIN fnOut.items = DOMAIN fnIn.items
        /\ \A i \in DOMAIN fnOut.items :
              \A r \in ScoreIncoming :
                  fnOut.items[i] = scoreOne([fnIn.items[i] EXCEPT !.score = r])
        /\ score(fnOut.items) = fnOut.items

(* C12 witness: score has been applied to its own output, for an item that came
   in with a score different from the one score gives it. *)
C12_Witness ==
    /\ fnOut # Null
    /\ fnOut.by = "score"
    /\ fnOut.pass = 2
    /\ \E i \in DOMAIN fnOut.items :
          /\ fnIn.items[i].score = 50
          /\ fnOut.items[i].score = 37

(* the cap of each low-signal cohort, by the cue that marks it *)
CohortCap ==
    ("RX_PROXY_ADVISOR" :> 20) @@ ("RX_LAWFIRM" :> 12) @@ ("RX_AWARDS" :> 18)
    @@ ("RX_SECURITY_UPDATE" :> 16) @@ ("RX_INVESTOR_CONFS" :> 16)
    @@ ("RX_ANALYST" :> 16) @@ ("RX_SHELF_ATM" :> 18) @@ ("RX_STRAT_ALTS" :> 30)

(* C18, as claimed: the score that score returns for an item whose text matches
   a low-signal cohort pattern never exceeds that cohort's cap. *)
C18_CohortCapHolds ==
    (fnOut # Null /\ fnOut.by = "score") =>
        \A i \in DOMAIN fnOut.items :
            \A c \in DOMAIN CohortCap :
                c \in fnIn.items[i].cues => fnOut.items[i].score <= CohortCap[c]

-----------------------------------------------------------------------------
(* pipeline/classify.ts: the classifier *)

(* The repository holds two revisions of classifyOne: the one of
   pipeline/classify.ts (rev = "classify") and a later one (rev = "later") that
   adds the misinformation guard, the preclinical detectors and the special
   dividend detector.  A string is the set of the cues (patterns of PAT, and the
   other regular expressions of the file, by name) that match it once normalized;
   `.` does not match the newline that joins title and summary, so a cue matches
   the joined text when it matches one of the two.  Weights and raw scores are
   counted in tenths (weight 9 is 90, the 0.1 of plain dilution is 1). *)

HighImpactEvent ==
    << "PIVOTAL_TRIAL_SUCCESS", "FDA_MARKETING_AUTH", "FDA_ADCOM_POSITIVE",
       "REGULATORY_DESIGNATION", "TIER1_PARTNERSHIP", "MAJOR_GOV_CONTRACT",
       "GOVERNMENT_EQUITY_OR_GRANT", "ACQUISITION_BUYOUT", "IPO_DEBUT_POP",
       "COURT_WIN_INJUNCTION", "MEME_OR_INFLUENCER", "RESTRUCTURING_OR_FINANCING",
       "POLICY_OR_POLITICS_TAILWIND", "EARNINGS_BEAT_OR_GUIDE_UP", "INDEX_INCLUSION",
       "UPLISTING_TO_NASDAQ", "OTHER" >>

(* values a text field of a raw item can hold *)
Str(cues) == [kind |-> "string", cues |-> cues]
Undefined == [kind |-> "undefined"]
Num(n) == [kind |-> "number", n |-> n]
TypeError == [throws |-> "TypeError"]

(* `v || ""` *)
orEmpty(v) ==
    IF v.kind = "undefined" \/ (v.kind = "number" /\ v.n = 0) THEN Str({}) ELSE v

(* normalize(s) = (s || "").replace(...)...trim(): a truthy value that is not a
   string has no replace method *)
normalize(v) ==
    LET s == orEmpty(v) IN IF s.kind = "string" THEN s ELSE TypeError

(* classify.ts isWirePR: as in the scorer, the tokens compared case-sensitively *)
isWirePRClassify(url, cues) ==
    \/ /\ url # "none"
       /\ UrlHost[url] # "throws"
       /\ UrlHost[url] \in WIRE_HOSTS \cup IrHosts
    \/ "WIRE_TOKENS" \in cues

Tenths(n) == n * 10
Result(event, sc) == [event |-> event, score |-> sc]

(* Fault variant of hardGuards: the plain-dilution guard is tested first. *)
hardGuardsDilutionFirst(rev, x) ==
    LET has(c) == c \in x
    IN  IF has("plainDilution") /\ ~has("dilutionException")
        THEN Result("OTHER", 1)
        ELSE IF \/ rev = "later" /\ has("misinfo")
                \/ has("securityIncidentUpdate")
                \/ has("awardsPR")
                \/ (has("proxyAdvisor") \/ has("voteAdminOnly")) /\ ~has("mnaBinding")
                \/ has("investorConfs")
                \/ has("lawFirmPR")
                \/ has("shelfOrATM")
                \/ has("analystMedia")
                \/ has("typoErratum")
             THEN Result("OTHER", 0)
             ELSE Null

(* the hard guards / early exits of classifyOne: the result they return, or
   Null when none of them fires *)
hardGuards(rev, x) ==
    LET has(c) == c \in x
    IN  IF \/ rev = "later" /\ has("misinfo")
           \/ has("securityIncidentUpdate")
           \/ has("awardsPR")
           \/ (has("proxyAdvisor") \/ has("voteAdminOnly")) /\ ~has("mnaBinding")
           \/ has("investorConfs")
           \/ has("lawFirmPR")
           \/ has("shelfOrATM")
           \/ has("analystMedia")
           \/ has("typoErratum")
        THEN Result("OTHER", 0)
        ELSE IF has("plainDilution") /\ ~has("dilutionException")
             THEN Result("OTHER", 1)
             ELSE Null

(* push(ok, label, w, why) *)
hit(ok, label, w) == IF ok THEN << [label |-> label, w |-> Tenths(w)] >> ELSE << >>

hasBigPercentGrowth(x) == "bigPercent" \in x \/ "recordRevenue" \in x
hasSwingToProfit(x) == "swingToProfit" \in x
hasScaleOf(x) == "LARGE_DOLLARS" \in x \/ "SCALE" \in x

(* the hits of the "Gov / partnerships" block *)
partnershipHits(isPR, x) ==
    LET has(c) == c \in x
        govContract == has("govWords") /\ has("contractAny")
        govEquity == has("govEquity")
        isPartnership ==
            \/ has("partnershipAny") \/ has("contractAny") \/ has("dealSigned")
            \/ has("TIER1_RX") /\ has("verbsTier1")
        hasTier1 == has("TIER1_RX")
        hasScale == hasScaleOf(x)
        nameDropOnly == hasTier1 /\ ~isPartnership /\ has("nameDropContext")
    IN  hit(isPR /\ govContract /\ ~has("govRoutine"), "MAJOR_GOV_CONTRACT", 8)
        \o hit(isPR /\ govContract /\ has("govRoutine"), "OTHER", 2)
        \o hit(govEquity, "GOVERNMENT_EQUITY_OR_GRANT", 9)
        \o hit(isPartnership /\ (hasTier1 \/ hasScale) /\ ~nameDropOnly,
               "TIER1_PARTNERSHIP", IF hasTier1 THEN 8 ELSE 6)
        \o hit(~isPartnership /\ nameDropOnly, "MEME_OR_INFLUENCER", 4)

(* the positive rules of classifyOne: the hits in the order they are pushed *)
hitsOf(rev, isPR, x) ==
    LET has(c) == c \in x
        binding ==
            has("mnaBinding") \/ (has("mnaWillAcquire") /\ has("mnaPerShareOrValue"))
        nonbind == has("mnaNonBinding")
        admin == has("mnaAdminOnly")
        asset == has("mnaAssetOrProperty")
        beatOrGuide == has("earningsBeatGuideUp")
        resultsBlob == has("financialResultsOnly")
        strongExceptions == hasSwingToProfit(x) \/ hasBigPercentGrowth(x)
    IN  hit(isPR /\ has("approval"), "FDA_MARKETING_AUTH", 10)
        \o hit(isPR /\ has("adcom"), "FDA_ADCOM_POSITIVE", 8)
        \o hit(isPR /\ (has("pivotal") \/ has("topline")), "PIVOTAL_TRIAL_SUCCESS", 9)
        \o hit(isPR /\ has("designation"), "REGULATORY_DESIGNATION", 6)
        \o hit(rev = "later" /\ has("preclinNHP"), "PIVOTAL_TRIAL_SUCCESS", 6)
        \o hit(rev = "later" /\ has("cellModelEarly"), "PIVOTAL_TRIAL_SUCCESS",
               IF has("HOT_DISEASE_RX") THEN 6 ELSE 5)
        \o hit(binding /\ ~nonbind /\ ~admin /\ ~asset, "ACQUISITION_BUYOUT", 9)
        \o hit(nonbind \/ admin \/ asset, "OTHER", 2)
        \o partnershipHits(isPR, x)
        \o hit(beatOrGuide \/ (resultsBlob /\ strongExceptions),
               "EARNINGS_BEAT_OR_GUIDE_UP", IF beatOrGuide THEN 6 ELSE 5)
        \o hit(has("indexInclusion"), "INDEX_INCLUSION", 3)
        \o hit(has("uplist"), "UPLISTING_TO_NASDAQ", 5)
        \o hit(has("listingCompliance"), "UPLISTING_TO_NASDAQ", 6)
        \o hit(rev = "later" /\ has("specialDividend"), "RESTRUCTURING_OR_FINANCING", 7)
        \o hit(has("courtWin"), "COURT_WIN_INJUNCTION", 6)
        \o hit(has("memeOrInfluencer"), "MEME_OR_INFLUENCER", 6)
        \o hit(has("cryptoTreasuryBuy"), "RESTRUCTURING_OR_FINANCING", 7)
        \o hit(has("cryptoTreasuryDiscuss"), "RESTRUCTURING_OR_FINANCING", 6)
        \o hit(has("antiDilutionPositive"), "RESTRUCTURING_OR_FINANCING", 7)
        \o hit(resultsBlob /\ ~beatOrGuide /\ ~hasSwingToProfit(x)
                 /\ ~hasBigPercentGrowth(x), "OTHER", 0 - 4)

(* a Map<HighImpactEvent, number> is the sequence of its entries in insertion
   order; by.set(label, (by.get(label) ?? 0) + w) *)
byHas(by, label) == \E i \in DOMAIN by : by[i].label = label
byGet(by, label) ==
    IF byHas(by, label)
    THEN (CHOOSE e \in {by[i] : i \in DOMAIN by} : e.label = label).w
    ELSE 0
byAdd(by, label, w) ==
    IF byHas(by, label)
    THEN [i \in DOMAIN by |->
            IF by[i].label = label THEN [by[i] EXCEPT !.w = @ + w] ELSE by[i]]
    ELSE Append(by, [label |-> label, w |-> w])

RECURSIVE byOf(_)
byOf(hits) ==
    IF hits = << >> THEN << >>
    ELSE LET h == hits[Len(hits)]
         IN  byAdd(byOf(SubSeq(hits, 1, Len(hits) - 1)), h.label, h.w)

(* the synergies / boosters applied to the aggregated map *)
synergies(by, x) ==
    LET a == IF byHas(by, "PIVOTAL_TRIAL_SUCCESS") /\ byHas(by, "FDA_MARKETING_AUTH")
             THEN byAdd(by, "FDA_MARKETING_AUTH", Tenths(3)) ELSE by
    IN  IF /\ \/ byHas(a, "TIER1_PARTNERSHIP")
              \/ byHas(a, "MAJOR_GOV_CONTRACT")
              \/ byHas(a, "GOVERNMENT_EQUITY_OR_GRANT")
           /\ hasScaleOf(x)
        THEN byAdd(a, "OTHER", Tenths(2)) ELSE a

(* The entry a tie rule by declaration order selects: among the entries of
   highest weight, the one whose label comes first in HighImpactEvent. *)
topOfByEnumeration(by) ==
    LET best == {i \in DOMAIN by : \A j \in DOMAIN by : by[j].w <= by[i].w}
        pos(l) == CHOOSE k \in DOMAIN HighImpactEvent : HighImpactEvent[k] = l
    IN  by[CHOOSE i \in best : \A j \in best : pos(by[i].label) <= pos(by[j].label)]

(* [...by.entries()].sort((a, b) => b[1] - a[1])[0]: the sort is stable, so the
   first entry, in insertion order, among those of highest weight *)
topOf(by) ==
    LET best == {i \in DOMAIN by : \A j \in DOMAIN by : by[j].w <= by[i].w}
    IN  by[CHOOSE i \in best : \A j \in best : i <= j]

(* the aggregated weights of classifyOne, synergies applied *)
aggregate(rev, isPR, x) == synergies(byOf(hitsOf(rev, isPR, x)), x)

(* no hit at all, or a non-positive total without a strong catalyst *)
suppressed(rev, isPR, x) ==
    LET by == aggregate(rev, isPR, x)
        total == SeqSum([i \in DOMAIN by |-> by[i].w])
        strongCatalyst ==
            \/ byGet(by, "ACQUISITION_BUYOUT") >= Tenths(8)
            \/ byGet(by, "FDA_MARKETING_AUTH") >= Tenths(8)
            \/ byGet(by, "PIVOTAL_TRIAL_SUCCESS") >= Tenths(8)
            \/ byGet(by, "MAJOR_GOV_CONTRACT") >= Tenths(8)
            \/ byGet(by, "RESTRUCTURING_OR_FINANCING") >= Tenths(7)
            \/ byGet(by, "UPLISTING_TO_NASDAQ") >= Tenths(6)
    IN  \/ hitsOf(rev, isPR, x) = << >>
        \/ total <= 0 /\ ~strongCatalyst

(* classifyOne after the hard guards *)
decide(rev, isPR, x) ==
    IF suppressed(rev, isPR, x) THEN Result("OTHER", 0)
    ELSE Result(topOf(aggregate(rev, isPR, x)).label,
                topOf(aggregate(rev, isPR, x)).w)

(* classifyOne: TypeError when normalize throws *)
classifyOne(rev, it) ==
    LET title == normalize(it.title)
        body == normalize(it.summary)
    IN  IF title = TypeError \/ body = TypeError THEN TypeError
        ELSE LET x == title.cues \cup body.cues
                 guard == hardGuards(rev, x)
             IN  IF guard # Null THEN guard
                 ELSE decide(rev, isWirePRClassify(it.url, x), x)

(* classify: items.map; an exception thrown by the callback propagates out of
   map and no array is returned.  The outcome is [threw, items]. *)
classify(rev, items) ==
    IF \E i \in DOMAIN items : classifyOne(rev, items[i]) = TypeError
    THEN [threw |-> TRUE, items |-> << >>]
    ELSE [threw |-> FALSE,
          items |-> [i \in DOMAIN items |->
                        [title |-> items[i].title, summary |-> items[i].summary,
                         url |-> items[i].url,
                         klass |-> classifyOne(rev, items[i]).event,
                         score |-> classifyOne(rev, items[i]).score]]]

-----------------------------------------------------------------------------
(* SpecClassify: classify, in either revision, applied to one batch *)

ClassifyCues ==
    {"misinfo", "securityIncidentUpdate", "awardsPR", "proxyAdvisor",
     "voteAdminOnly", "mnaBinding", "investorConfs", "lawFirmPR", "shelfOrATM",
     "analystMedia", "typoErratum", "plainDilution", "dilutionException",
     "approval", "adcom", "pivotal", "topline", "designation", "preclinNHP",
     "cellModelEarly", "HOT_DISEASE_RX", "mnaWillAcquire", "mnaPerShareOrValue",
     "mnaNonBinding", "mnaAdminOnly", "mnaAssetOrProperty", "govWords",
     "contractAny", "govEquity", "verbsTier1", "partnershipAny", "dealSigned",
     "TIER1_RX", "LARGE_DOLLARS", "SCALE", "govRoutine", "nameDropContext",
     "earningsBeatGuideUp", "financialResultsOnly", "swingToProfit", "bigPercent",
     "recordRevenue", "indexInclusion", "uplist", "listingCompliance",
     "specialDividend", "courtWin", "memeOrInfluencer", "cryptoTreasuryBuy",
     "cryptoTreasuryDiscuss", "antiDilutionPositive", "WIRE_TOKENS"}

(* "Acme signs NASA contract for a lunar lander": every govWords name is also a
   Tier-1 counterparty *)
GovContractText == {"govWords", "TIER1_RX", "contractAny", "dealSigned"}
(* "Investor alert: class action after FDA approval and private placement" *)
LawFirmText == {"lawFirmPR", "approval", "plainDilution"}
ClassifyTexts ==
    {{a, b} : a \in ClassifyCues, b \in ClassifyCues}
        \cup {{}, GovContractText, LawFirmText}

ClassifyUrls == DOMAIN UrlHost
ClassifyRevs == {"classify", "later"}

(* items whose fields are well-formed strings *)
GoodItems ==
    [title : {Str(t) : t \in ClassifyTexts}, summary : {Undefined},
     url : ClassifyUrls]
        \cup [title : {Str({"approval"}), Str({})},
              summary : {Str({"lawFirmPR"}), Str({"WIRE_TOKENS"}), Str({})},
              url : {"wire", "web"}]
(* items with a missing or malformed text field, or a url that does not parse *)
BadItems ==
    [title : {Undefined, Num(0), Num(42)}, summary : {Undefined, Num(42)},
     url : {"none", "bad"}]
PartnerItems ==
    [title : {Str({"approval"}), Str(GovContractText), Str({"mnaBinding"})},
     summary : {Undefined}, url : {"wire", "web"}]
ClassifyBatches ==
    {<< >>} \cup {<< it >> : it \in GoodItems \cup BadItems}
            \cup {<< b, g >> : b \in BadItems, g \in PartnerItems}
            \cup {<< g, b >> : b \in BadItems, g \in PartnerItems}

InitClassify ==
    /\ fnIn \in {[items |-> b] : b \in ClassifyBatches}
    /\ fnOut = Null
    /\ cfg \in Configs
    /\ LedgerIdle /\ ConfirmIdle /\ RealtimeIdle

ClassifyEval(rev) ==
    /\ fnOut = Null
    /\ fnOut' = [rev |-> rev, result |-> classify(rev, fnIn.items)]
    /\ UNCHANGED << fnIn, cfg, ledgerVars, confirmVars, realtimeVars >>

NextClassify == \E rev \in ClassifyRevs : ClassifyEval(rev)

SpecClassify == InitClassify /\ [][NextClassify]_vars

(* the cues of the text classifyOne builds from a well-formed item *)
textOf(it) == normalize(it.title).cues \cup normalize(it.summary).cues

(* C13: every item whose text matches the law-firm pattern or the awards
   pattern is classified OTHER with raw score 0, in both revisions, whatever
   else its text matches (positive detectors, the plain-dilution guard) and
   whether or not it is wire PR. *)
C13_HardGuardsDominate ==
    (fnOut # Null /\ ~fnOut.result.threw) =>
        \A i \in DOMAIN fnOut.result.items :
            ("lawFirmPR" \in textOf(fnIn.items[i]) \/ "awardsPR" \in textOf(fnIn.items[i]))
                => fnOut.result.items[i].klass = "OTHER" /\ fnOut.result.items[i].score = 0

(* C13 witness: a wire item matching the law-firm pattern together with the
   approval detector and the plain-dilution guard came out OTHER with score 0. *)
C13_Witness ==
    /\ fnOut # Null
    /\ ~fnOut.result.threw
    /\ \E i \in DOMAIN fnOut.result.items :
          /\ fnIn.items[i].title = Str(LawFirmText)
          /\ fnIn.items[i].url = "wire"
          /\ fnOut.result.items[i].klass = "OTHER"
          /\ fnOut.result.items[i].score = 0

(* C14, as claimed: when classifyOne selects among aggregated classes, the class
   it returns is, among the classes of highest aggregated weight, the one
   declared first in HighImpactEvent. *)
C14_TieByEnumerationOrder ==
    (fnOut # Null /\ ~fnOut.result.threw) =>
        \A i \in DOMAIN fnOut.result.items :
            LET it == fnIn.items[i]
                x == textOf(it)
                isPR == isWirePRClassify(it.url, x)
            IN  (hardGuards(fnOut.rev, x) = Null /\ ~suppressed(fnOut.rev, isPR, x))
                    => fnOut.result.items[i].klass
                         = topOfByEnumeration(aggregate(fnOut.rev, isPR, x)).label

(* C16, as claimed: classify never throws; it returns one classified item per
   input item, in input order, an item with a missing or malformed text field
   being classified from empty text and every other item as it is classified
   alone. *)
C16_ClassifyNeverThrows ==
    fnOut # Null =>
        /\ ~fnOut.result.threw
        /\ DOMAIN fnOut.result.items = DOMAIN fnIn.items
        /\ \A i \in DOMAIN fnIn.items :
              LET it == fnIn.items[i]
                  alone == classifyOne(fnOut.rev, it)
              IN  /\ fnOut.result.items[i].title = it.title
                  /\ IF alone = TypeError
                     THEN fnOut.result.items[i].klass = "OTHER" /\ fnOut.result.items[i].score = 0
                     ELSE /\ fnOut.result.items[i].klass = alone.event
                          /\ fnOut.result.items[i].score = alone.score

GatedClasses == {"FDA_MARKETING_AUTH", "TIER1_PARTNERSHIP", "MAJOR_GOV_CONTRACT"}

(* C19, as claimed: classifyOne pushes a regulatory-approval, Tier-1-partnership
   or government-contract hit, and returns one of these classes, only for an
   item that is wire PR or, for Tier-1, names a Tier-1 counterparty together
   with an adoption/integration verb. *)
C19_WireGated ==
    (fnOut # Null /\ ~fnOut.result.threw) =>
        \A i \in DOMAIN fnOut.result.items :
            LET it == fnIn.items[i]
                x == textOf(it)
                isPR == isWirePRClassify(it.url, x)
                hits == hitsOf(fnOut.rev, isPR, x)
                admitted(label) ==
                    \/ isPR
                    \/ label = "TIER1_PARTNERSHIP" /\ "TIER1_RX" \in x /\ "verbsTier1" \in x
            IN  /\ hardGuards(fnOut.rev, x) = Null =>
                      \A k \in DOMAIN hits :
                          hits[k].label \in GatedClasses => admitted(hits[k].label)
                /\ fnOut.result.items[i].klass \in GatedClasses
                      => admitted(fnOut.result.items[i].klass)

-----------------------------------------------------------------------------
(* More Ledger properties (SpecLedger) *)

(* C20: in every reachable Ledger state, fill with a sell order for more than
   the held quantity h of its symbol adds price * h to cash and
   (price - avgCost) * h to realizedPnl and deletes the position; and no stored
   position has a negative quantity. *)
C20_SellCappedAtHeld ==
    /\ \A s \in DOMAIN simulator.positions : simulator.positions[s].qty >= 0
    /\ \A s \in DOMAIN simulator.positions, q \in OrderQtys, p \in OrderPxs,
          t \in OrderTimes :
          LET pos == simulator.positions[s]
              L2 == fill(simulator, sellOrder(s, q, p, t))
          IN  q > pos.qty =>
                /\ L2.cash = simulator.cash + p * pos.qty
                /\ L2.realizedPnl = RAdd(simulator.realizedPnl,
                                         RMul(RSub(RInt(p), pos.avg), RInt(pos.qty)))
                /\ s \notin DOMAIN L2.positions
                /\ \A u \in DOMAIN L2.positions : L2.positions[u].qty > 0

(* C20 witness: 50 shares bought at $10, then a sell order for 100 at $12 was
   filled: cash is up by the proceeds of 50 shares, realizedPnl is $100 and the
   position is gone. *)
C20_Witness ==
    \E s \in Symbols :
        /\ simulator.fills = << buyOrder(s, 50, 10 * Dollar, 0),
                                sellOrder(s, 100, 12 * Dollar, 0) >>
        /\ simulator.cash = DefaultStartingCash + 100 * Dollar
        /\ simulator.realizedPnl = RInt(100 * Dollar)
        /\ simulator.positions = EmptyMap

(* the positions of every symbol but s *)
OtherPositions(S, s) == [u \in (DOMAIN S.positions) \ {s} |-> S.positions[u]]

(* C21: in every reachable Ledger state tryExit(symbol, lastPrice, now) changes
   nothing when the symbol has no open position; changes only the session high
   of that position when the exit policy returns no match; and when the policy
   triggers appends exactly one sell fill for the full quantity at the policy's
   price with the policy's reason, credits cash by price * qty, adds
   (price - avg) * qty to realizedPnl and deletes the position. *)
C21_TryExitEffects ==
    \A symbol \in Symbols, lastPx \in ExitPxs, now \in ExitTimes :
        LET L2 == tryExit(simulator, symbol, lastPx, now) IN
        IF symbol \notin DOMAIN simulator.positions THEN L2 = simulator
        ELSE LET pos == simulator.positions[symbol]
                 d == updateExit(pos, lastPx, now).decision
             IN  /\ OtherPositions(L2, symbol) = OtherPositions(simulator, symbol)
                 /\ IF d = Null
                      THEN /\ L2.fills = simulator.fills
                           /\ L2.cash = simulator.cash
                           /\ L2.realizedPnl = simulator.realizedPnl
                           /\ symbol \in DOMAIN L2.positions
                           /\ [L2.positions[symbol] EXCEPT !.high = pos.high] = pos
                      ELSE /\ L2.fills = Append(simulator.fills,
                                  [ts |-> now, symbol |-> symbol, side |-> "sell",
                                   px |-> d.px, qty |-> pos.qty, reason |-> d.reason])
                           /\ L2.cash = simulator.cash + d.px * pos.qty
                           /\ L2.realizedPnl = RAdd(simulator.realizedPnl,
                                  RMul(RSub(RInt(d.px), pos.avg), RInt(pos.qty)))
                           /\ symbol \notin DOMAIN L2.positions

(* C21 witness: tryExit closed a position on the profit target (bought at $10,
   exited at $15) while the other symbol's position, evaluated without a match,
   is still open with its high raised above its cost. *)
C21_Witness ==
    \E s \in Symbols, u \in Symbols :
        /\ s # u
        /\ Len(simulator.fills) = 3
        /\ simulator.fills[3] = [ts |-> 0, symbol |-> s, side |-> "sell",
                                 px |-> 15 * Dollar, qty |-> 100,
                                 reason |-> "target50"]
        /\ s \notin DOMAIN simulator.positions
        /\ simulator.realizedPnl = RInt(500 * Dollar)
        /\ u \in DOMAIN simulator.positions
        /\ RInt(simulator.positions[u].high) = RInt(12 * Dollar)
        /\ simulator.positions[u].avg = RInt(10 * Dollar)

(* starting-cash arguments reset is tried with: the default, another amount, 0 *)
C24_Cashes == {DefaultStartingCash, 5000 * Dollar, 0}

(* C24: in every reachable Ledger state reset(c) gives the state of a newly
   constructed Ledger with starting cash c (no fills, no positions, realizedPnl
   0, cash c), and reset() with no argument clears fills, positions and
   realizedPnl and leaves cash at its current value. *)
C24_ResetIsFreshLedger ==
    /\ \A c \in C24_Cashes :
          LET L2 == reset(simulator, << c >>)
          IN  /\ L2.fills = << >>
              /\ L2.positions = EmptyMap
              /\ L2.realizedPnl = RInt(0)
              /\ L2.cash = c
              /\ L2 = newSimulator(c)
    /\ LET L2 == reset(simulator, << >>)
       IN  /\ L2.fills = << >>
           /\ L2.positions = EmptyMap
           /\ L2.realizedPnl = RInt(0)
           /\ L2.cash = simulator.cash

(* C24 witness: fills were recorded since construction and the Ledger is empty
   again with the cash a buy left behind: reset() acted on a Ledger holding a
   position. *)
C24_Witness ==
    /\ appended > 0
    /\ simulator.fills = << >>
    /\ simulator.positions = EmptyMap
    /\ simulator.realizedPnl = RInt(0)
    /\ simulator.cash < DefaultStartingCash

(* SpecLedgerRun: a Ledger driven by fill and tryExit calls only (never reset) *)

NextLedgerRun == LedgerFill \/ LedgerTryExit

SpecLedgerRun == InitLedger /\ [][NextLedgerRun]_vars

(* C25: after any sequence of fill and tryExit calls on a Ledger constructed with
   starting cash C, equity with an empty mark map is C + realizedPnl. *)
C25_EquityIsCashPlusPnl ==
    equity(simulator, EmptyMap) = RAdd(RInt(DefaultStartingCash), simulator.realizedPnl)

(* C25 witness: a position opened and merged at two prices (its average cost is
   no whole number of mills) has then been partly sold at a gain. *)
C25_Witness ==
    \E s \in Symbols :
        /\ s \in DOMAIN simulator.positions
        /\ simulator.positions[s].avg.d # 1
        /\ simulator.positions[s].qty = 100
        /\ Len(simulator.fills) = 3
        /\ simulator.fills[3].side = "sell"
        /\ RGt(simulator.realizedPnl, RInt(0))

RECURSIVE CashFlow(_)
(* the cash the recorded fills stand for: - px * qty per buy, + px * qty per sell *)
CashFlow(fs) ==
    IF fs = << >> THEN 0
    ELSE (IF Head(fs).side = "buy" THEN 0 - Head(fs).px * Head(fs).qty
          ELSE Head(fs).px * Head(fs).qty) + CashFlow(Tail(fs))

(* C26, as claimed: in every reachable Ledger state cash is the starting cash
   minus px * qty over the recorded buy fills plus px * qty over the recorded
   sell fills. *)
C26_FillsAccountForCash ==
    simulator.cash = DefaultStartingCash + CashFlow(simulator.fills)

(* C27: every open position has high >= avg, and no step lowers the high of a
   position that is open before and after it. *)
C27_HighAboveAvgAndMonotone ==
    /\ [](\A s \in DOMAIN simulator.positions :
            RGe(RInt(simulator.positions[s].high), simulator.positions[s].avg))
    /\ [][\A s \in (DOMAIN simulator.positions) \cap (DOMAIN simulator'.positions) :
            simulator'.positions[s].high >= simulator.positions[s].high]_vars

(* C27 witness: a position built from two buys below $15 (one merged into the
   other) whose high an exit evaluation without a match has raised to $15. *)
C27_Witness ==
    \E s \in Symbols :
        /\ s \in DOMAIN simulator.positions
        /\ simulator.positions[s].qty = 150
        /\ Len(simulator.fills) = 2
        /\ simulator.fills[1].px < 15 * Dollar
        /\ simulator.fills[2].px < 15 * Dollar
        /\ simulator.fills[1].px # simulator.fills[2].px
        /\ simulator.positions[s].high = 15 * Dollar

-----------------------------------------------------------------------------
(* More exit-policy properties (SpecExit) *)

(* gain >= 3%, gain < 50% and price less than 12% below the session high, on the
   inputs in whole numbers *)
gainAtLeast3(in) == 100 * in.lastPx * in.pos.avg.d >= 103 * in.pos.avg.n
gainBelow50(in) == 2 * in.lastPx * in.pos.avg.d < 3 * in.pos.avg.n
withinTrail(in) == 100 * in.lastPx > 88 * in.pos.high

(* C22: updateExit returns the time stop only when at least 30 minutes have
   passed since the position opened and the gain is below 3%; a position whose
   gain is at least 3% and below 50% and whose price is less than 12% below the
   session high gets the null result whatever the time passed. *)
C22_TimeStopOnlyWhenStagnant ==
    fnOut # Null =>
        /\ (fnOut.decision # Null /\ fnOut.decision.reason = "time")
              => /\ fnIn.now - fnIn.pos.openTs >= 30 * Minute
                 /\ ~gainAtLeast3(fnIn)
        /\ (gainAtLeast3(fnIn) /\ gainBelow50(fnIn) /\ withinTrail(fnIn))
              => fnOut.decision = Null

(* C22 witness: 90 minutes after the open, a position up 5% at its session high
   was evaluated and left open. *)
C22_Witness ==
    /\ fnOut # Null
    /\ fnIn.now - fnIn.pos.openTs = 90 * Minute
    /\ fnIn.pos.avg = RInt(10 * Dollar)
    /\ fnIn.lastPx = 10 * Dollar + 50 * Cent
    /\ fnIn.pos.high = 10 * Dollar
    /\ fnOut.decision = Null
    /\ fnOut.pos.high = 10 * Dollar + 50 * Cent

-----------------------------------------------------------------------------
(* More sizer properties (SpecSizer) *)

(* C23: for every positive price and non-negative equity and riskPct the order
   returned has qty >= 0 and qty * cleaned price <= $5,000; a non-zero order has
   qty * cleaned price >= $50; and when no quantity fits (cleaned price above
   the cap, or no risk budget) the result is the zero-quantity order at the
   cleaned price. *)
C23_QtyWithinNotionalBounds ==
    fnOut # Null =>
        LET cleanPx == cleanPxOf(fnIn.px)
            budget == RMul(RInt(fnIn.equity), fnIn.riskPct)
        IN  /\ fnOut.qty >= 0
            /\ fnOut.qty * cleanPx <= 5000 * Dollar
            /\ fnOut.qty > 0 => fnOut.qty * cleanPx >= 50 * Dollar
            /\ (cleanPx > 5000 * Dollar \/ budget = RInt(0))
                  => fnOut = [side |-> "buy", symbol |-> "AAA", qty |-> 0, ts |-> 0,
                              px |-> cleanPx]

(* C23 witness: price $2.00, equity $100, riskPct 1%: the risk-sized 6 shares
   ($12) were bumped to 25 shares, $50 of notional. *)
C23_Witness ==
    /\ fnIn = [px |-> 2 * Dollar, riskPct |-> Rat(1, 100), equity |-> 100 * Dollar]
    /\ fnOut # Null
    /\ rawQtyOf(cleanPxOf(fnIn.px), fnIn.riskPct, fnIn.equity) = 6
    /\ fnOut.qty = 25

(* C28, as claimed: for every non-zero order the risk taken,
   qty * (cleaned price - stop price), is at most equity * riskPct. *)
C28_RiskWithinBudget ==
    (fnOut # Null /\ fnOut.qty > 0) =>
        RLe(RMul(RInt(fnOut.qty), RSub(RInt(cleanPxOf(fnIn.px)), fnOut.stopPx)),
            RMul(RInt(fnIn.equity), fnIn.riskPct))

-----------------------------------------------------------------------------
(* More priceConfirm properties (SpecConfirm) *)

-----------------------------------------------------------------------------
(* More properties of the realtime loop (Spec) *)

(* C15: in every interleaving of news cycles and bar handling, a symbol enters
   the watchlist only in a step in which a news cycle records the hash, not
   recorded before, of an item that reaches the alert threshold and has that
   symbol as its primary symbol; so a symbol that was removed is re-armed only
   by a new, distinct qualifying item, never by an item whose hash is already
   recorded (each hash is recorded once). *)
C15_RearmOnlyByNewItem ==
    /\ [][\A s \in Symbols :
            (s \notin watchlist /\ s \in watchlist') =>
                \E it \in NewsItems :
                    /\ RGe(it.score, cfg.ALERT_THRESHOLD)
                    /\ Len(it.symbols) > 0
                    /\ it.symbols[1] = s
                    /\ ~seen(eventDb, it.hash)
                    /\ seen(eventDb', it.hash)]_vars
    /\ [](\A e1 \in eventDb, e2 \in eventDb : e1.hash = e2.hash => e1 = e2)

(* C15 witness: a symbol with a completed entry (a buy fill, the handler run
   resumed and removed it from the watchlist) is on the watchlist again, with a
   second signal recorded for it. *)
C15_Witness ==
    \E s \in Symbols :
        /\ s \in watchlist
        /\ Signals(s) = 2
        /\ CountBuys(simulator.fills, s) >= 1
        /\ entryAwait[s] = 0
        /\ ~unhandled

(* C29, as claimed: a symbol added to the watchlist by a newly qualifying item
   stays on the watchlist until a bar-handler run that observed it after that
   add attempts an entry: in every reachable state a symbol signalled since its
   last entry attempt began is on the watchlist. *)
C29_NewSignalKeptUntilObserved == unobserved \subseteq watchlist

-----------------------------------------------------------------------------
(* providers/marketaux.ts: fetchPage and fetchMarketaux.

   The repository holds two revisions of the provider: "marketaux"
   (providers/marketaux.ts), which dedupes as it goes on a canonical-URL key, and
   "earlier" (the copy kept with fetchAllProviders), which dedupes by id after
   the pagination loop.  One call of fetchMarketaux is a process: fnIn is what it
   was called with, fnOut its position and locals.  The code between two awaits
   is one step; the server's answer to each request is chosen by the
   environment. *)

DefaultMaxRetries == 3

(* an AxiosError: its code and the status of its response (0: no response) *)
HttpError(code, status) == [code |-> code, status |-> status]
HttpErrors ==
    {HttpError("ECONNABORTED", 0), HttpError("ERR_BAD_REQUEST", 429),
     HttpError("ERR_BAD_RESPONSE", 503), HttpError("ERR_BAD_REQUEST", 404),
     HttpError("ENOTFOUND", 0)}

(* isTimeout || status === 429 || (status && status >= 500) *)
retriable(err) ==
    \/ err.code = "ECONNABORTED"
    \/ err.status = 429
    \/ (err.status # 0 /\ err.status >= 500)

(* canonicalUrl on the URLs of the model: query, hash and trailing slashes go,
   the host is lower-cased; "" for a missing url *)
canonicalUrl ==
    ("https://x.com/a?utm=1" :> "https://x.com/a")
    @@ ("https://X.com/a/" :> "https://x.com/a")
    @@ ("https://x.com/b" :> "https://x.com/b")
    @@ ("" :> "")

(* normTitle on the titles of the model: trimmed, blanks collapsed, lower case *)
normTitle ==
    (" Hello  World" :> "hello world")
    @@ ("hello world" :> "hello world")
    @@ ("Alpha" :> "alpha")
    @@ ("Beta" :> "beta")

(* an article of a response page; entities that are no array make the
   .filter call of the item loop throw *)
Article(uuid, url, title, entitiesOk) ==
    [uuid |-> uuid, url |-> url, title |-> title, published_at |-> "2025-01-01T00:00:00",
     entitiesOk |-> entitiesOk]
FetchArticles ==
    {Article("u1", "https://x.com/a?utm=1", "Alpha", TRUE),
     Article("u2", "https://X.com/a/", "Alpha", TRUE),
     Article("", "", " Hello  World", TRUE),
     Article("", "", "hello world", TRUE),
     Article("u1", "https://x.com/b", "Beta", TRUE),
     Article("u5", "https://x.com/b", "Beta", FALSE)}

(* the dedupe key of marketaux.ts: the canonical url, else title|date|source *)
keyOf(url, title, publishedAt) ==
    IF url # "" THEN [url |-> url]
    ELSE [title |-> normTitle[title], date |-> publishedAt, source |-> "marketaux"]

(* the RawItem pushed for article a *)
rawItemOf(rev, a) ==
    IF rev = "marketaux"
      THEN LET url == canonicalUrl[a.url]
           IN  [id |-> IF a.uuid # "" THEN a.uuid
                       ELSE IF url # "" THEN url
                       ELSE a.title \o "-" \o a.published_at,
                url |-> IF url # "" THEN url ELSE a.url,
                title |-> a.title, source |-> "marketaux",
                publishedAt |-> a.published_at]
      ELSE [id |-> IF a.uuid # "" THEN a.uuid
                   ELSE IF a.url # "" THEN a.url
                   ELSE IF a.title # "" THEN a.title
                   ELSE a.published_at,
            url |-> a.url, title |-> a.title, source |-> "marketaux",
            publishedAt |-> a.published_at]

RECURSIVE itemLoop(_, _, _, _)
(* `for (const a of items)`: out and seen after the loop, and whether it threw *)
itemLoop(rev, items, out, seenKeys) ==
    IF items = << >> THEN [out |-> out, seen |-> seenKeys, threw |-> FALSE]
    ELSE LET a == Head(items) IN
         IF ~a.entitiesOk THEN [out |-> out, seen |-> seenKeys, threw |-> TRUE]
         ELSE IF rev = "marketaux"
           THEN LET key == keyOf(canonicalUrl[a.url], a.title, a.published_at)
                IN  IF key \in seenKeys
                      THEN itemLoop(rev, Tail(items), out, seenKeys)
                      ELSE itemLoop(rev, Tail(items), Append(out, rawItemOf(rev, a)),
                                    seenKeys \cup {key})
           ELSE itemLoop(rev, Tail(items), Append(out, rawItemOf(rev, a)), seenKeys)

RECURSIVE dedupeById(_, _)
(* the earlier revision's closing pass: the first item of each id *)
dedupeById(out, ids) ==
    IF out = << >> THEN << >>
    ELSE IF Head(out).id \in ids THEN dedupeById(Tail(out), ids)
    ELSE << Head(out) >> \o dedupeById(Tail(out), ids \cup {Head(out).id})

(* what fetchMarketaux returns once its loop is left *)
returned(rev, out) == IF rev = "marketaux" THEN out ELSE dedupeById(out, {})

(* fetchMarketaux up to its first request *)
fetchBegin(in) ==
    [pc |-> "get", page |-> 1, attempt |-> 0, requests |-> 1, errs |-> << >>,
     out |-> << >>, seen |-> {}, pagesGot |-> << >>, ended |-> "", result |-> << >>]

(* the loop is left: the function returns *)
fetchEnd(in, st, why) ==
    [st EXCEPT !.pc = "done", !.ended = why, !.result = returned(in.rev, st.out)]

(* Fault variant of onHttpError: the retry budget is not looked at. *)
onHttpErrorNoBudget(in, st, err) ==
    LET st1 == [st EXCEPT !.errs = Append(st.errs, err)]
    IN  IF ~retriable(err)
          THEN fetchEnd(in, st1, "failed")
          ELSE [st1 EXCEPT !.attempt = st.attempt + 1, !.pc = "backoff"]

(* the catch of fetchPage: rethrow (fetchMarketaux catches and breaks), or count
   the attempt and sleep *)
onHttpError(in, st, err) ==
    LET st1 == [st EXCEPT !.errs = Append(st.errs, err)]
    IN  IF ~retriable(err) \/ st.attempt >= DefaultMaxRetries
          THEN fetchEnd(in, st1, "failed")
          ELSE [st1 EXCEPT !.attempt = st.attempt + 1, !.pc = "backoff"]

(* fetchPage returns data: the items are taken in; an empty or short page, or a
   throw in the item loop, leaves the pagination loop; else the next page after
   a pause *)
onHttpData(in, st, items) ==
    LET r == itemLoop(in.rev, items, st.out, st.seen)
        st1 == [st EXCEPT !.pagesGot = Append(st.pagesGot, items),
                          !.out = r.out, !.seen = r.seen]
    IN  IF Len(items) = 0 THEN fetchEnd(in, st1, "empty")
        ELSE IF r.threw THEN fetchEnd(in, st1, "failed")
        ELSE IF Len(items) < in.pageLimit THEN fetchEnd(in, st1, "short")
        ELSE [st1 EXCEPT !.page = st.page + 1, !.pc = "pause"]

(* a sleep resolves: the retry is issued, or the while condition is looked at
   and the next page requested *)
onTimer(in, st) ==
    IF st.pc = "backoff" THEN [st EXCEPT !.pc = "get", !.requests = st.requests + 1]
    ELSE IF st.page <= in.maxPages
      THEN [st EXCEPT !.pc = "get", !.attempt = 0, !.requests = 1, !.errs = << >>]
      ELSE fetchEnd(in, st, "maxPages")

-----------------------------------------------------------------------------
(* SpecFetch: one call of fetchMarketaux against an arbitrary server.  Every
   request settles (the client has a timeout) and every timer fires. *)

FetchRevs == {"marketaux", "earlier"}
FetchMaxPages == {1, 2}
FetchPageLimits == {1, 2}
FetchInputs == [rev : FetchRevs, maxPages : FetchMaxPages, pageLimit : FetchPageLimits]

(* the pages a server can answer with: up to pageLimit articles *)
FetchPages(limit) ==
    {<< >>} \cup {<< a >> : a \in FetchArticles}
    \cup (IF limit >= 2 THEN {<< a, b >> : a \in FetchArticles, b \in FetchArticles}
          ELSE {})

InitFetch ==
    /\ fnIn \in FetchInputs
    /\ fnOut = fetchBegin(fnIn)
    /\ cfg \in Configs
    /\ LedgerIdle /\ ConfirmIdle /\ RealtimeIdle

HttpResolved ==
    \E items \in FetchPages(fnIn.pageLimit) :
        /\ fnOut.pc = "get"
        /\ fnOut' = onHttpData(fnIn, fnOut, items)
        /\ UNCHANGED << fnIn, cfg, ledgerVars, confirmVars, realtimeVars >>

HttpRejected ==
    \E err \in HttpErrors :
        /\ fnOut.pc = "get"
        /\ fnOut' = onHttpError(fnIn, fnOut, err)
        /\ UNCHANGED << fnIn, cfg, ledgerVars, confirmVars, realtimeVars >>

TimerFired ==
    /\ fnOut.pc \in {"backoff", "pause"}
    /\ fnOut' = onTimer(fnIn, fnOut)
    /\ UNCHANGED << fnIn, cfg, ledgerVars, confirmVars, realtimeVars >>

NextFetch == HttpResolved \/ HttpRejected \/ TimerFired

SpecFetch == InitFetch /\ [][NextFetch]_vars /\ WF_vars(NextFetch)

-----------------------------------------------------------------------------
(* Fetcher properties (SpecFetch) *)

(* the key each revision dedupes on, for a returned item and for an article *)
dedupeKey(rev, it) ==
    IF rev = "marketaux" THEN keyOf(it.url, it.title, it.publishedAt) ELSE [id |-> it.id]
articleKey(rev, a) == dedupeKey(rev, rawItemOf(rev, a))

(* a page all of whose articles the item loop takes in, and as long as asked for *)
fullPage(items, limit) ==
    Len(items) = limit /\ \A i \in 1..Len(items) : items[i].entitiesOk

(* the bounds of one call, in a state of it *)
fetchWithinBounds ==
    LET st == fnOut
        running == st.pc \in {"get", "backoff"}
    IN  /\ st.requests <= DefaultMaxRetries + 1
        /\ Len(st.errs) <= st.requests
        /\ \A i \in 1..Len(st.errs) :
              (i < Len(st.errs) \/ running) => retriable(st.errs[i])
        /\ st.pc = "backoff" => Len(st.errs) <= DefaultMaxRetries
        /\ (st.ended = "failed" /\ st.errs # << >> /\ Len(st.pagesGot) < st.page)
              => \/ ~retriable(st.errs[Len(st.errs)])
                 \/ Len(st.errs) = DefaultMaxRetries + 1
        /\ Len(st.pagesGot) + (IF running THEN 1 ELSE 0) <= fnIn.maxPages
        /\ \A i \in 1..Len(st.pagesGot) :
              (i < Len(st.pagesGot) \/ st.pc # "done")
                  => fullPage(st.pagesGot[i], fnIn.pageLimit)
        /\ st.pc = "done" =>
              /\ \A i \in 1..Len(st.pagesGot) - 1 : \A j \in 1..Len(st.pagesGot[i]) :
                    \E k \in 1..Len(st.result) :
                        dedupeKey(fnIn.rev, st.result[k])
                            = articleKey(fnIn.rev, st.pagesGot[i][j])
              /\ \A k \in 1..Len(st.result), m \in 1..Len(st.result) :
                    k # m => dedupeKey(fnIn.rev, st.result[k])
                                # dedupeKey(fnIn.rev, st.result[m])

(* C30: fetchPage issues at most maxRetries + 1 requests per call, retries only
   after a timeout, a 429 or a 5xx, rethrows any other error at once and rethrows
   once the budget is spent; fetchMarketaux requests at most maxPages pages,
   stops at the first page that fails, is empty or is short, and returns the
   items of the earlier pages with no two sharing a dedupe key; and every call
   ends. *)
C30_FetchBoundedAndEnds ==
    /\ [](fetchWithinBounds)
    /\ <>(fnOut.pc = "done")

(* C30 witness: the first page came back full with two articles of one
   canonical URL; the second page failed on every one of the four requests
   allowed (all retriable); the call returned the one item of page 1. *)
C30_Witness ==
    /\ fnIn = [rev |-> "marketaux", maxPages |-> 2, pageLimit |-> 2]
    /\ fnOut.pc = "done"
    /\ fnOut.ended = "failed"
    /\ fnOut.page = 2
    /\ Len(fnOut.pagesGot) = 1
    /\ fnOut.pagesGot[1][1].uuid # fnOut.pagesGot[1][2].uuid
    /\ fnOut.requests = DefaultMaxRetries + 1
    /\ Len(fnOut.errs) = DefaultMaxRetries + 1
    /\ \A i \in 1..Len(fnOut.errs) : retriable(fnOut.errs[i])
    /\ Len(fnOut.result) = 1

====
